---- MODULE Spec2Model ----
(***************************************************************************)
(* Model of the provider discovery and enrichment pipeline of              *)
(* localsolarproviders.org:                                                *)
(*   - src/src/lib/overpass.ts        discovery client, rate limiter,      *)
(*                                    geocoding                            *)
(*   - src/src/app/api/stats/route.ts POST: the discovery run              *)
(*                                    (geocode, validate, discover,        *)
(*                                    reconcile, respond)                  *)
(*   - src/unnamed/part_008           website enrichment                   *)
(*                                                                         *)
(* Coordinates are integers in units of 0.0005 degree, so the 0.001 degree *)
(* tolerance of the code is 2 units.  Time is in milliseconds.             *)
(***************************************************************************)
EXTENDS Integers, Sequences, FiniteSets, TLC

VARIABLES
    \* ---- persistent store (Prisma tables) ----
    dbInstallers,   \* installers table: sequence of rows, row id = index
    dbLinks,        \* external_links table: row id -> set of link labels
    scanLogs,       \* scan_logs rows appended since the current run began
    \* ---- one POST /discover run ----
    pc,             \* position in the handler
    req,            \* parsed request body
    searchLat, searchLon, radius,
    upstream,       \* data.elements of the discovery response
    candidates,     \* result of discoverSolarInstallers
    idx,            \* loop position in `for (const candidate of candidates)`
    installers,     \* the handler's local list (row ids pushed so far)
    response,       \* what the handler returned
    \* ---- observation of the run (history) ----
    netCalls,       \* network requests issued by the run, in order
    obs,            \* per-run counters, see ObsInit
    prev,           \* summary of the previous completed run
    runs,           \* number of runs started
    faults,         \* steps so far in which a store operation failed
    \* ---- rate limiters (module-level state) ----
    clock,          \* Date.now()
    lastRequest,    \* service -> lastRequestTime / lastWebsiteRequest
    caller,         \* caller -> its position inside rateLimited*Fetch
    sends,          \* service -> [n, last, minGap] of requests sent
    \* ---- one enrichInstallerWebsite call ----
    epc,            \* position in enrichInstallerWebsite
    eurl,           \* the websiteUrl argument
    robots,         \* what the robots.txt request produced
    result,         \* the EnrichmentResult being built
    homepageFetches, \* homepage requests issued by the call
    \* ---- one testSpecialtyDetection call ----
    ctext,          \* the text argument
    cdetected,      \* [called, slugs]: whether it returned, and the slugs
    \* ---- one CapacityEstimator.estimateCapacity call ----
    provider,       \* the provider argument
    websiteData,    \* the websiteData argument
    estimate,       \* [called, value]: whether it returned, and what
    \* ---- enrichment of stored installers ----
    dbTags,         \* installer_specialties table: set of <<installer id, slug>>
    dbScannedAt,    \* installers.lastScannedAt: set of <<installer id, time>>
    dbSpecialties,  \* specialties table: the slugs of its rows
    job,            \* the enrichment request being served, see NoJob
    eresponse,      \* what POST /api/enrich/[id] returned
    \* ---- one enrichMultipleInstallers call ----
    batch           \* the call's position, arguments and results, see NoBatch

discVars == <<dbInstallers, dbLinks, scanLogs, pc, req, searchLat, searchLon,
              radius, upstream, candidates, idx, installers, response, netCalls, obs,
              prev, runs, faults>>
rateVars == <<clock, lastRequest, caller, sends>>
classifyVars == <<ctext, cdetected>>
capacityVars == <<provider, websiteData, estimate>>
storeVars == <<dbTags, dbScannedAt, dbSpecialties, job, eresponse>>
batchVars == <<batch>>
extraVars == <<classifyVars, capacityVars, storeVars, batchVars>>
enrichVars == <<epc, eurl, robots, result, homepageFetches, extraVars>>
vars == <<discVars, rateVars, enrichVars>>

-----------------------------------------------------------------------------
(* JavaScript values *)

\* `undefined` for an optional string
Undefined == "undefined"
\* `undefined` for an optional number
UndefinedNum == -1

\* `null`: what the store holds for an optional column that was never set
Null == "null"

\* truthiness of a string: undefined, null and "" are falsy
Truthy(s) == s # Undefined /\ s # Null /\ s # ""
\* truthiness of a number: undefined and 0 are falsy
TruthyNum(n) == n # UndefinedNum /\ n # 0

\* a || b on strings
OrElse(a, b) == IF Truthy(a) THEN a ELSE b

Abs(n) == IF n < 0 THEN -n ELSE n

\* the character of s at position i (1-based), as a one-character string
Char(s, i) == SubSeq(s, i, i)

\* the string p occurs in s at position i
At(s, i, p) == i >= 1 /\ i + Len(p) - 1 <= Len(s) /\ SubSeq(s, i, i + Len(p) - 1) = p

\* String.prototype.startsWith
StartsWith(s, p) == At(s, 1, p)

\* String.prototype.includes
Includes(s, p) == \E i \in 1..(Len(s) - Len(p) + 1) : At(s, i, p)

\* the least element of a non-empty set of integers
Least(S) == CHOOSE i \in S : \A j \in S : i <= j

\* toLowerCase of one character
LowerChar(c) ==
    CASE c = "A" -> "a" [] c = "B" -> "b" [] c = "C" -> "c" [] c = "D" -> "d"
      [] c = "E" -> "e" [] c = "F" -> "f" [] c = "G" -> "g" [] c = "H" -> "h"
      [] c = "I" -> "i" [] c = "J" -> "j" [] c = "K" -> "k" [] c = "L" -> "l"
      [] c = "M" -> "m" [] c = "N" -> "n" [] c = "O" -> "o" [] c = "P" -> "p"
      [] c = "Q" -> "q" [] c = "R" -> "r" [] c = "S" -> "s" [] c = "T" -> "t"
      [] c = "U" -> "u" [] c = "V" -> "v" [] c = "W" -> "w" [] c = "X" -> "x"
      [] c = "Y" -> "y" [] c = "Z" -> "z" [] OTHER -> c

RECURSIVE LowerFrom(_, _)
LowerFrom(s, i) ==
    IF i > Len(s) THEN "" ELSE LowerChar(Char(s, i)) \o LowerFrom(s, i + 1)

\* String.prototype.toLowerCase
ToLowerCase(s) == LowerFrom(s, 1)

-----------------------------------------------------------------------------
(* Discovery client: src/src/lib/overpass.ts *)

\* 0.001 degree, in units of 0.0005 degree
CoordTolerance == 2
\* 50 km, in metres
MaxRadius == 50000
DefaultRadius == 25000

NoCenter == <<>>

\* tags of an element that carries only a name
TagsOf(name) ==
    [name |-> name, phone |-> Undefined, contact_phone |-> Undefined,
     website |-> Undefined, contact_website |-> Undefined,
     city |-> Undefined, state |-> Undefined, postcode |-> Undefined,
     housenumber |-> Undefined, street |-> Undefined]

\* tags of an element that carries every optional tag
FullTagsOf(name) ==
    [name |-> name, phone |-> "555-0100", contact_phone |-> "555-0199",
     website |-> "sun.example", contact_website |-> Undefined,
     city |-> "Austin", state |-> "TX", postcode |-> "78701",
     housenumber |-> "12", street |-> "Main St"]

\* tags with the contact:* variants only
ContactTagsOf(name) ==
    [name |-> name, phone |-> Undefined, contact_phone |-> "555-0199",
     website |-> Undefined, contact_website |-> "contact.example",
     city |-> Undefined, state |-> Undefined, postcode |-> Undefined,
     housenumber |-> Undefined, street |-> "Main St"]

\* buildAddress
buildAddress(tags) ==
    LET p1 == IF Truthy(tags.housenumber) THEN <<tags.housenumber>> ELSE <<>>
        parts == IF Truthy(tags.street) THEN p1 \o <<tags.street>> ELSE p1
    IN  CASE Len(parts) = 0 -> Undefined
          [] Len(parts) = 1 -> parts[1]
          [] OTHER -> parts[1] \o " " \o parts[2]

\* the first .filter: an element must have a name and coordinates
hasNameAndCoords(element) ==
    /\ Truthy(element.tags.name)
    /\ \/ TruthyNum(element.lat) /\ TruthyNum(element.lon)
       \/ /\ element.center # NoCenter
          /\ TruthyNum(element.center[1]) /\ TruthyNum(element.center[2])

\* the .map: element -> InstallerCandidate
toCandidate(element) ==
    LET coords == IF element.center # NoCenter THEN element.center
                  ELSE <<element.lat, element.lon>>
    IN  [osmId |-> element.osmId,
         name |-> element.tags.name,
         lat |-> coords[1],
         lon |-> coords[2],
         address |-> buildAddress(element.tags),
         city |-> element.tags.city,
         state |-> element.tags.state,
         postal |-> element.tags.postcode,
         phone |-> OrElse(element.tags.phone, element.tags.contact_phone),
         website |-> OrElse(element.tags.website, element.tags.contact_website)]

\* the predicate of the dedup findIndex
sameNameAndPlace(other, candidate) ==
    /\ ToLowerCase(other.name) = ToLowerCase(candidate.name)
    /\ Abs(other.lat - candidate.lat) < CoordTolerance
    /\ Abs(other.lon - candidate.lon) < CoordTolerance

\* arr restricted to the indices in `kept`, in array order (what
\* Array.prototype.filter returns when its callback keeps exactly `kept`)
SelectIdx(arr, kept) ==
    LET nth(k) == CHOOSE i \in kept : Cardinality({j \in kept : j < i}) = k - 1
    IN  [k \in 1..Cardinality(kept) |-> arr[nth(k)]]

\* arr.findIndex(other => sameNameAndPlace(other, candidate)), 1-based,
\* 0 when nothing matches
findIndexSame(arr, candidate) ==
    LET hits == {j \in 1..Len(arr) : sameNameAndPlace(arr[j], candidate)}
    IN  IF hits = {} THEN 0
        ELSE CHOOSE j \in hits : \A k \in hits : j <= k

\* .filter(element => name and coordinates)
filterNamed(elements) ==
    SelectIdx(elements,
              {i \in 1..Len(elements) : hasNameAndCoords(elements[i])})

\* .map(element => candidate)
mapCandidates(arr) == [i \in 1..Len(arr) |-> toCandidate(arr[i])]

\* (mutant) the last entry with a name and place is kept, not the first
keepsIndexLast(arr, i) ==
    ~\E j \in (i + 1)..Len(arr) : sameNameAndPlace(arr[j], arr[i])

\* the callback of the last .filter: keep the candidate at index i iff the
\* first entry with its name and place is itself
keepsIndex(arr, i) == findIndexSame(arr, arr[i]) = i

\* .filter((candidate, index, arr) => arr.findIndex(...) === index)
dedupCandidates(arr) ==
    SelectIdx(arr, {i \in 1..Len(arr) : keepsIndex(arr, i)})

\* data.elements.filter(...).map(...).filter(...)
candidatesOf(elements) == dedupCandidates(mapCandidates(filterNamed(elements)))

-----------------------------------------------------------------------------
(* Reference links: src/src/lib/reviewLinks.ts *)

\* toUpperCase of one character
UpperChar(c) ==
    CASE c = "a" -> "A" [] c = "b" -> "B" [] c = "c" -> "C" [] c = "d" -> "D"
      [] c = "e" -> "E" [] c = "f" -> "F" [] c = "g" -> "G" [] c = "h" -> "H"
      [] c = "i" -> "I" [] c = "j" -> "J" [] c = "k" -> "K" [] c = "l" -> "L"
      [] c = "m" -> "M" [] c = "n" -> "N" [] c = "o" -> "O" [] c = "p" -> "P"
      [] c = "q" -> "Q" [] c = "r" -> "R" [] c = "s" -> "S" [] c = "t" -> "T"
      [] c = "u" -> "U" [] c = "v" -> "V" [] c = "w" -> "W" [] c = "x" -> "X"
      [] c = "y" -> "Y" [] c = "z" -> "Z" [] OTHER -> c

RECURSIVE UpperFrom(_, _)
UpperFrom(s, i) ==
    IF i > Len(s) THEN "" ELSE UpperChar(Char(s, i)) \o UpperFrom(s, i + 1)

\* String.prototype.toUpperCase
ToUpperCase(s) == UpperFrom(s, 1)

LicensingBoards == {"CA", "TX", "FL", "NY", "AZ", "NV", "CO", "MA"}
StateAssociations == {"CA", "TX", "FL", "NY", "AZ"}

generateReviewLinks(info) ==
    (IF Truthy(info.name) /\ Truthy(info.city) /\ Truthy(info.state)
        THEN {"GOOGLE", "YELP", "BBB", "ANGI", "HOMEADVISOR"} ELSE {})
    \cup (IF Truthy(info.name) /\ Truthy(info.city) THEN {"FACEBOOK"} ELSE {})
    \cup (IF Truthy(info.name) THEN {"NABCEP"} ELSE {})

generateLicensingLinks(info) ==
    IF ~Truthy(info.state) THEN {}
    ELSE IF ToUpperCase(info.state) \in LicensingBoards THEN {"LICENSE"}
    ELSE {}

generateIndustryLinks(info) ==
    {"SEIA"} \cup
    (IF Truthy(info.state) /\ ToUpperCase(info.state) \in StateAssociations
        THEN {"STATE_ASSOCIATION"} ELSE {})

\* generateAllLinks, flattened as the handler flattens it into linkData
generateAllLinks(info) ==
    generateReviewLinks(info) \cup generateLicensingLinks(info)
        \cup generateIndustryLinks(info)

-----------------------------------------------------------------------------
(* Store operations used by the discovery run (Prisma client) *)

\* `x || undefined` as the handler applies it to a stored column
OrUndefined(v) == IF Truthy(v) THEN v ELSE Undefined

\* the rows prisma.installer.findFirst may return for a candidate: same osmId,
\* or case-insensitively equal name and both coordinates within the
\* tolerance (gte/lte, bounds included)
findFirstMatches(rows, candidate) ==
    {i \in 1..Len(rows) :
        \/ rows[i].osmId = candidate.osmId
        \/ /\ ToLowerCase(rows[i].name) = ToLowerCase(candidate.name)
           /\ rows[i].lat >= candidate.lat - CoordTolerance
           /\ rows[i].lat <= candidate.lat + CoordTolerance
           /\ rows[i].lon >= candidate.lon - CoordTolerance
           /\ rows[i].lon <= candidate.lon + CoordTolerance}

\* (mutant) an absent value written as NULL
updatedColumnBlanking(old, new) == IF new = Undefined THEN Null ELSE new

\* one column of prisma.installer.update: `undefined` in `data` leaves the
\* column as it is
updatedColumn(old, new) == IF new = Undefined THEN old ELSE new

\* prisma.installer.update({ where: { id }, data: { name, lat, ... } })
updateData(row, candidate) ==
    [osmId |-> row.osmId,
     name |-> candidate.name,
     lat |-> candidate.lat,
     lon |-> candidate.lon,
     address |-> updatedColumn(row.address, candidate.address),
     city |-> updatedColumn(row.city, candidate.city),
     state |-> updatedColumn(row.state, candidate.state),
     postal |-> updatedColumn(row.postal, candidate.postal),
     phone |-> updatedColumn(row.phone, candidate.phone),
     website |-> updatedColumn(row.website, candidate.website)]

\* one column of prisma.installer.create: `undefined` is stored as NULL
createdColumn(v) == IF v = Undefined THEN Null ELSE v

\* prisma.installer.create({ data: { osmId, name, lat, ... } })
createData(candidate) ==
    [osmId |-> candidate.osmId,
     name |-> candidate.name,
     lat |-> candidate.lat,
     lon |-> candidate.lon,
     address |-> createdColumn(candidate.address),
     city |-> createdColumn(candidate.city),
     state |-> createdColumn(candidate.state),
     postal |-> createdColumn(candidate.postal),
     phone |-> createdColumn(candidate.phone),
     website |-> createdColumn(candidate.website)]

\* the argument the handler builds for generateAllLinks from the created row
linkInfo(row) ==
    [name |-> row.name, city |-> OrUndefined(row.city),
     state |-> OrUndefined(row.state), phone |-> OrUndefined(row.phone),
     website |-> OrUndefined(row.website)]

\* a scan_logs row; `about` is the loop index of the candidate the message
\* names (0 for the run as a whole)
LogRow(installerId, status, message, about) ==
    [installerId |-> installerId, source |-> "OVERPASS", status |-> status,
     message |-> message, about |-> about]

-----------------------------------------------------------------------------
(* Bounds and input universes of the discovery run *)

\* discovery runs per behaviour
MaxRuns == 2
\* elements the geographic data service returns to one run
MaxRunElems == 2
\* steps per behaviour in which store operations fail
MaxFaultySteps == 1

\* a step in which a store operation fails spends one unit of that budget
Faulty(failed) ==
    /\ failed => faults < MaxFaultySteps
    /\ faults' = IF failed THEN faults + 1 ELSE faults

NoRequest ==
    [lat |-> UndefinedNum, lon |-> UndefinedNum,
     radiusMeters |-> UndefinedNum, location |-> Undefined]

Requests ==
    [lat : {UndefinedNum, 0, 74}, lon : {UndefinedNum, 0, 74},
     radiusMeters : {UndefinedNum, 50000, 50001},
     location : {Undefined, "Austin"}]

\* the request of the runs that study reconciliation: coordinates, default
\* radius
RunRequests ==
    {[lat |-> 74, lon |-> 74, radiusMeters |-> UndefinedNum,
      location |-> Undefined]}

\* what the geocoding request can produce
GeoOutcomes ==
    {[kind |-> k, lat |-> UndefinedNum, lon |-> UndefinedNum] :
        k \in {"network_error", "http_error", "no_results"}}
    \cup {[kind |-> "found", lat |-> 74, lon |-> 74],
          [kind |-> "found", lat |-> 0, lon |-> 74]}

\* an OpenStreetMap node as the service returns it
Node(id, tags, lat, lon) ==
    [osmId |-> id, tags |-> tags, lat |-> lat, lon |-> lon, center |-> NoCenter]

OsmIds == 1..MaxRunElems

\* the nodes a run may be given: each OSM id with a full record, a
\* differently-cased name two units (0.001 degree) away, another name at the
\* same place, and the same name far away on the other axis
RunElements ==
    UNION {{Node(id, FullTagsOf("Sun"), 10, 10),
            Node(id, TagsOf("SUN"), 12, 10),
            Node(id, TagsOf("Sol"), 10, 10),
            Node(id, TagsOf("Sun"), 10, 13)} : id \in OsmIds}

\* the service returns each element once: lists without repeated ids
RECURSIVE ListsUpTo(_)
ListsUpTo(n) ==
    IF n = 0 THEN {<<>>}
    ELSE LET shorter == ListsUpTo(n - 1)
         IN  shorter \cup
             {Append(l, e) : l \in {x \in shorter : Len(x) = n - 1},
                             e \in RunElements}

UpstreamLists ==
    {l \in ListsUpTo(MaxRunElems) :
        \A i, j \in 1..Len(l) : i # j => l[i].osmId # l[j].osmId}

\* what the discovery request can produce
FetchOutcomes == {"ok", "http_error", "network_error"}

NoResponse == [status |-> 0]

ErrorResponse(status, error) == [status |-> status, error |-> error]

\* the clauses of the union the query is built from (lines 70-88)
QueryClauses ==
    {"name~solar", "craft~solar", "shop~electrical|electronics,name~solar",
     "office~company|it,name~solar", "brand~solar",
     "office=energy_supplier,name~solar"}

\* the body of a request: an Overpass query, or none
NoBody == [present |-> FALSE, clauses |-> {}, around |-> <<>>]

\* lines 68-90: the query text, every clause `around` the centre
buildQuery(lat, lon, radiusMeters) ==
    [present |-> TRUE, clauses |-> QueryClauses,
     around |-> <<radiusMeters, lat, lon>>]

\* no request to the geographic data service yet
NoFetch == [sent |-> FALSE, url |-> "", method |-> "", body |-> NoBody]

\* the request rateLimitedFetch hands to fetch: the function declares the
\* one parameter `url` and builds the init object itself (headers and
\* signal); a second argument of the call is not read
rateLimitedFetch(url, options) ==
    [sent |-> TRUE, url |-> url, method |-> "GET", body |-> NoBody]

ObsInit ==
    [created |-> 0,        \* installers created by the run
     request |-> NoFetch,  \* the request sent to the geographic data service
     updated |-> 0,        \* installer updates by the run
     candErrors |-> 0,     \* times the per-candidate catch block ran
     written |-> {},       \* candidates whose installer row was created or updated
     threw |-> {},         \* candidates whose try block threw
     storeWrites |-> 0,    \* rows written to any table by the run
     clean |-> TRUE,       \* no store operation failed in the run
     geocoded |-> "not_called", \* "null" / "found" once geocodeAddress ran
     discoveryFailed |-> FALSE,
     errorLogFailed |-> FALSE,  \* the ERROR log write of a candidate failed
     fatalLogFailed |-> FALSE,  \* the log write of the handler's catch failed
     finishFailed |-> FALSE]

\* the counters after the handler's catch block ran
ObsFatal(o, logOk) ==
    [o EXCEPT !.clean = FALSE,
              !.storeWrites = IF logOk THEN @ + 1 ELSE @,
              !.fatalLogFailed = ~logOk]

NoPrev == [valid |-> FALSE, candidates |-> <<>>, count |-> 0, clean |-> FALSE]

\* a store as an earlier run leaves it: empty, or holding the installer
\* created from node 1 with its links
SeedRow == createData(toCandidate(Node(1, FullTagsOf("Sun"), 10, 10)))

InitStores ==
    {[rows |-> <<>>, links |-> <<>>],
     [rows |-> <<SeedRow>>, links |-> <<generateAllLinks(linkInfo(SeedRow))>>]}

-----------------------------------------------------------------------------
(* Rate limiter state shared by the specifications *)

MIN_REQUEST_INTERVAL == 2000
WEBSITE_REQUEST_INTERVAL == 2000

Services == {"overpass", "website"}

Interval(svc) ==
    IF svc = "overpass" THEN MIN_REQUEST_INTERVAL ELSE WEBSITE_REQUEST_INTERVAL

\* (mutant) the wait taken to be the time already elapsed
waitTimeElapsed(svc, now, last) ==
    IF now - last < Interval(svc) THEN now - last ELSE 0

\* the wait rateLimited*Fetch computes from Date.now() and the last request
waitTime(svc, now, last) ==
    IF now - last < Interval(svc) THEN Interval(svc) - (now - last) ELSE 0

NoSends == [n |-> 0, last |-> 0, minGap |-> 0]

\* the record of requests sent to a service, after one more is sent at t
recordSend(s, t) ==
    [n |-> s.n + 1, last |-> t,
     minGap |-> IF s.n = 0 THEN 0
                ELSE IF s.n = 1 \/ t - s.last < s.minGap THEN t - s.last
                ELSE s.minGap]

-----------------------------------------------------------------------------
(* The discovery run: POST of src/src/app/api/stats/route.ts *)

\* (mutant) geocodeAddress falling back to default coordinates
geocodeAddressDefaulting(outcome) ==
    IF outcome.kind = "found" THEN <<outcome.lat, outcome.lon>> ELSE <<74, 74>>

\* geocodeAddress: null (NoCenter) unless the request succeeds with a result
geocodeAddress(outcome) ==
    IF outcome.kind = "found" THEN <<outcome.lat, outcome.lon>> ELSE NoCenter

\* `location && (!lat || !lon)`
needsGeocoding(r) ==
    Truthy(r.location) /\ (~TruthyNum(r.lat) \/ ~TruthyNum(r.lon))

\* `radiusMeters || 25000`
radiusOf(r) == IF TruthyNum(r.radiusMeters) THEN r.radiusMeters ELSE DefaultRadius

\* `radius > 50000`
radiusTooLarge(rad) == rad > MaxRadius

\* the catch block of the handler: try to log the failure, answer 500
FatalCatch(logOk) ==
    /\ scanLogs' = IF logOk
                   THEN Append(scanLogs, LogRow(0, "ERROR", "Discovery failed", 0))
                   ELSE scanLogs
    /\ response' = ErrorResponse(500, "Failed to discover installers")
    /\ pc' = "done"

\* lines 31-65: parse the body, geocode a location, validate
PostStart(r, geo) ==
    /\ pc \in {"idle", "done"}
    /\ runs < MaxRuns
    /\ runs' = runs + 1
    /\ prev' = IF pc = "done" /\ response.status = 200
               THEN [valid |-> TRUE, candidates |-> candidates,
                     count |-> Len(dbInstallers), clean |-> obs.clean]
               ELSE NoPrev
    /\ needsGeocoding(r) \/ geo.kind = "no_results"
    /\ LET coords == IF needsGeocoding(r) THEN geocodeAddress(geo)
                     ELSE <<r.lat, r.lon>>
           sLat == IF coords = NoCenter THEN r.lat ELSE coords[1]
           sLon == IF coords = NoCenter THEN r.lon ELSE coords[2]
           rad == radiusOf(r)
       IN  /\ req' = r
           /\ netCalls' = IF needsGeocoding(r) THEN <<"geocode">> ELSE <<>>
           /\ IF needsGeocoding(r) /\ coords = NoCenter
              THEN /\ response' = ErrorResponse(400, "Could not geocode the provided location")
                   /\ pc' = "done"
                   /\ searchLat' = r.lat /\ searchLon' = r.lon
                   /\ radius' = UndefinedNum
              ELSE IF ~TruthyNum(sLat) \/ ~TruthyNum(sLon)
              THEN /\ response' = ErrorResponse(400, "Latitude and longitude are required")
                   /\ pc' = "done"
                   /\ searchLat' = sLat /\ searchLon' = sLon
                   /\ radius' = UndefinedNum
              ELSE IF radiusTooLarge(rad)
              THEN /\ response' = ErrorResponse(400, "Radius too large. Maximum 50km allowed.")
                   /\ pc' = "done"
                   /\ searchLat' = sLat /\ searchLon' = sLon
                   /\ radius' = rad
              ELSE /\ response' = NoResponse
                   /\ pc' = "logStart"
                   /\ searchLat' = sLat /\ searchLon' = sLon
                   /\ radius' = rad
    /\ scanLogs' = <<>>
    /\ upstream' = <<>>
    /\ candidates' = <<>>
    /\ idx' = 0
    /\ installers' = <<>>
    /\ obs' = [ObsInit EXCEPT !.geocoded =
                  IF ~needsGeocoding(r) THEN "not_called"
                  ELSE IF geo.kind = "found" THEN "found" ELSE "null"]
    /\ UNCHANGED <<dbInstallers, dbLinks, faults, rateVars, enrichVars>>

\* lines 70-76: log the discovery attempt
LogStart(ok, fatalLogOk) ==
    /\ pc = "logStart"
    /\ ok => fatalLogOk
    /\ Faulty(~ok)
    /\ IF ok
       THEN /\ scanLogs' = Append(scanLogs, LogRow(0, "OK", "Discovery started", 0))
            /\ obs' = [obs EXCEPT !.storeWrites = @ + 1]
            /\ pc' = "discover"
            /\ UNCHANGED response
       ELSE /\ FatalCatch(fatalLogOk)
            /\ obs' = ObsFatal(obs, fatalLogOk)
    /\ req' = NoRequest
    /\ UNCHANGED <<dbInstallers, dbLinks, searchLat, searchLon, radius,
                   upstream, candidates, idx, installers, netCalls, prev,
                   runs, rateVars, enrichVars>>

\* (mutant) a failed request answered with an empty candidate list
discoverSolarInstallersSwallowing(rad, outcome, elements) ==
    IF radiusTooLarge(rad)
    THEN [sent |-> FALSE, threw |-> TRUE, candidates |-> <<>>]
    ELSE IF outcome # "ok"
    THEN [sent |-> TRUE, threw |-> FALSE, candidates |-> <<>>]
    ELSE [sent |-> TRUE, threw |-> FALSE, candidates |-> candidatesOf(elements)]

\* discoverSolarInstallers(lat, lon, radiusMeters): `sent` tells whether the
\* request was issued, `threw` whether the function threw
discoverSolarInstallers(rad, outcome, elements) ==
    IF radiusTooLarge(rad)
    THEN [sent |-> FALSE, threw |-> TRUE, candidates |-> <<>>]
    ELSE IF outcome # "ok"
    THEN [sent |-> TRUE, threw |-> TRUE, candidates |-> <<>>]
    ELSE [sent |-> TRUE, threw |-> FALSE, candidates |-> candidatesOf(elements)]

\* line 79: discoverSolarInstallers, whose request goes through
\* rateLimitedFetch (taken here as one step: wait, stamp, send)
Discover(outcome, elements, fatalLogOk) ==
    /\ pc = "discover"
    /\ outcome = "ok" \/ elements = <<>>
    /\ outcome = "ok" => fatalLogOk
    /\ Faulty(~fatalLogOk)
    /\ LET d == discoverSolarInstallers(radius, outcome, elements)
           sendAt == clock + waitTime("overpass", clock, lastRequest["overpass"])
           request == IF d.sent
                      THEN rateLimitedFetch("overpass-api.de/api/interpreter",
                               [method |-> "POST",
                                body |-> buildQuery(searchLat, searchLon, radius)])
                      ELSE obs.request
       IN  /\ IF d.sent
              THEN /\ clock' = sendAt
                   /\ lastRequest' = [lastRequest EXCEPT !["overpass"] = sendAt]
                   /\ sends' = [sends EXCEPT !["overpass"] = recordSend(@, sendAt)]
                   /\ UNCHANGED caller
                   /\ netCalls' = Append(netCalls, "overpass")
              ELSE UNCHANGED <<netCalls, rateVars>>
           /\ upstream' = elements
           /\ IF d.threw
              THEN /\ FatalCatch(fatalLogOk)
                   /\ obs' = [ObsFatal(obs, fatalLogOk)
                                 EXCEPT !.discoveryFailed = outcome # "ok",
                                        !.request = request]
                   /\ UNCHANGED <<candidates, idx>>
              ELSE /\ candidates' = d.candidates
                   /\ idx' = 1
                   /\ pc' = IF d.candidates = <<>> THEN "finish" ELSE "reconcile"
                   /\ obs' = [obs EXCEPT !.discoveryFailed = outcome # "ok",
                                         !.request = request]
                   /\ UNCHANGED <<scanLogs, response>>
    /\ UNCHANGED <<dbInstallers, dbLinks, req, searchLat, searchLon, radius,
                   installers, prev, runs, enrichVars>>

\* where the first store failure of one loop iteration happens
FailPoints == {"none", "find", "write", "links", "oklog"}

\* (mutant) links generated again whenever the installer is written
linksAfterReconcileRegenerating(links, m, row, wrote, linked) ==
    IF wrote /\ m = 0
    THEN Append(links, IF linked THEN generateAllLinks(linkInfo(row)) ELSE {})
    ELSE IF wrote
    THEN [links EXCEPT ![m] = @ \cup generateAllLinks(linkInfo(row))]
    ELSE links

\* lines 140-165: the external_links table after one pass of the loop body.
\* Only the create branch calls generateAllLinks and createMany; the new
\* installer has no links when createMany throws
linksAfterReconcile(links, m, row, wrote, linked) ==
    IF wrote /\ m = 0
    THEN Append(links, IF linked THEN generateAllLinks(linkInfo(row)) ELSE {})
    ELSE links

\* lines 86-192: one iteration of the candidate loop.  m is the row findFirst
\* returns (0: none), fail the store call that throws first, errLogOk
\* whether the ERROR log of the catch block is written
Reconcile(m, fail, errLogOk, fatalLogOk) ==
    /\ pc = "reconcile"
    /\ idx <= Len(candidates)
    /\ LET c == candidates[idx]
           matches == findFirstMatches(dbInstallers, c)
           threw == fail # "none"
           wrote == fail \in {"none", "links", "oklog"}
           linked == m = 0 /\ fail \in {"none", "oklog"}
           pushed == fail \in {"none", "oklog"}
           id == IF m # 0 THEN m ELSE Len(dbInstallers) + 1
           row == IF m # 0 THEN updateData(dbInstallers[m], c) ELSE createData(c)
           n == (IF wrote THEN 1 ELSE 0) + (IF linked THEN 1 ELSE 0)
                + (IF ~threw \/ errLogOk THEN 1 ELSE 0)
       IN  /\ IF matches = {} THEN m = 0 ELSE m \in matches
           /\ fail = "links" => m = 0
           /\ threw \/ errLogOk
           /\ (threw /\ ~errLogOk) \/ fatalLogOk
           /\ Faulty(threw)
           /\ dbInstallers' =
                 IF ~wrote THEN dbInstallers
                 ELSE IF m # 0 THEN [dbInstallers EXCEPT ![m] = row]
                 ELSE Append(dbInstallers, row)
           /\ dbLinks' = linksAfterReconcile(dbLinks, m, row, wrote, linked)
           /\ installers' = IF pushed THEN Append(installers, id) ELSE installers
           /\ IF ~threw
              THEN /\ scanLogs' = Append(scanLogs,
                                         LogRow(id, "OK", "Processed installer", idx))
                   /\ obs' = [obs EXCEPT !.storeWrites = @ + n,
                                         !.created = IF m = 0 THEN @ + 1 ELSE @,
                                         !.updated = IF m # 0 THEN @ + 1 ELSE @,
                                         !.written = @ \cup {idx}]
                   /\ idx' = idx + 1
                   /\ pc' = IF idx = Len(candidates) THEN "finish" ELSE "reconcile"
                   /\ UNCHANGED response
              ELSE IF errLogOk
              THEN /\ scanLogs' = Append(scanLogs,
                                         LogRow(0, "ERROR", "Error processing", idx))
                   /\ obs' = [obs EXCEPT !.storeWrites = @ + n,
                                         !.created = IF m = 0 /\ wrote THEN @ + 1 ELSE @,
                                         !.updated = IF m # 0 /\ wrote THEN @ + 1 ELSE @,
                                         !.candErrors = @ + 1,
                                         !.written = IF wrote THEN @ \cup {idx} ELSE @,
                                         !.threw = @ \cup {idx},
                                         !.clean = FALSE]
                   /\ idx' = idx + 1
                   /\ pc' = IF idx = Len(candidates) THEN "finish" ELSE "reconcile"
                   /\ UNCHANGED response
              ELSE /\ FatalCatch(fatalLogOk)
                   /\ obs' = [ObsFatal(obs, fatalLogOk)
                                 EXCEPT !.storeWrites = @ + n,
                                        !.created = IF m = 0 /\ wrote THEN @ + 1 ELSE @,
                                        !.updated = IF m # 0 /\ wrote THEN @ + 1 ELSE @,
                                        !.candErrors = @ + 1,
                                        !.written = IF wrote THEN @ \cup {idx} ELSE @,
                                        !.threw = @ \cup {idx},
                                        !.errorLogFailed = TRUE]
                   /\ UNCHANGED idx
    /\ UNCHANGED <<req, searchLat, searchLon, radius, upstream, candidates,
                   netCalls, prev, runs, rateVars, enrichVars>>

\* lines 195-218: read each installer's links and answer
Finish(ok, fatalLogOk) ==
    /\ pc = "finish"
    /\ ok \/ installers # <<>>
    /\ ok => fatalLogOk
    /\ Faulty(~ok)
    /\ IF ok
       THEN /\ response' =
                 [status |-> 200, success |-> TRUE,
                  discovered |-> Len(candidates),
                  processed |-> Len(installers),
                  installers |->
                      [i \in 1..Len(installers) |->
                          [id |-> installers[i],
                           externalLinks |-> dbLinks[installers[i]]]]]
            /\ pc' = "done"
            /\ UNCHANGED <<scanLogs, obs>>
       ELSE /\ FatalCatch(fatalLogOk)
            /\ obs' = [ObsFatal(obs, fatalLogOk) EXCEPT !.finishFailed = TRUE]
    /\ UNCHANGED <<dbInstallers, dbLinks, req, searchLat, searchLon, radius,
                   upstream, candidates, idx, installers, netCalls, prev, runs,
                   rateVars, enrichVars>>

-----------------------------------------------------------------------------
(* Initial states *)

Callers == {1, 2}

\* the process has just started: no request was ever sent, and Date.now() is
\* more than an interval past the zero the limiters start from
InitRate ==
    /\ clock = MIN_REQUEST_INTERVAL + WEBSITE_REQUEST_INTERVAL
    /\ lastRequest = [svc \in Services |-> 0]
    /\ caller = [p \in Callers |-> [pc |-> "idle", svc |-> "overpass", wakeAt |-> 0]]
    /\ sends = [svc \in Services |-> NoSends]

NoResult == [specialties |-> <<>>, success |-> FALSE, error |-> Undefined]

NotCalled == [called |-> FALSE, slugs |-> <<>>]

InitClassify ==
    /\ ctext = ""
    /\ cdetected = NotCalled

\* estimateCapacity works in kW with two decimals kept; the model counts
\* capacities in thousandths of a kW and confidences in hundredths
NoProvider ==
    [yearsInBusiness |-> UndefinedNum, totalReviews |-> UndefinedNum,
     city |-> Null, specialties |-> <<>>]
NoWebsiteData == [present |-> FALSE, portfolio |-> <<>>]
NoEstimate ==
    [called |-> FALSE,
     value |-> [totalKw |-> 0, projects |-> 0, averageSystemSize |-> 0,
                confidence |-> 0]]

InitCapacity ==
    /\ provider = NoProvider
    /\ websiteData = NoWebsiteData
    /\ estimate = NoEstimate

\* a DATETIME column that holds NULL
NullTime == -1

\* no enrichment request yet
NoJob ==
    [kind |-> "none", id |-> 0, pc |-> "idle", success |-> FALSE,
     errors |-> <<>>, before |-> [tags |-> {}, scannedAt |-> NullTime],
     estimatedCapacity |-> NoEstimate.value]

\* part_015:6-21: the specialties table as the seed script leaves it
SeededSpecialties ==
    {"battery_backup", "ev_charger", "tile_roof", "metal_roof", "ground_mount",
     "off_grid", "microinverters", "commercial_pv", "residential_pv", "roofing",
     "storage_only", "solar_maintenance", "energy_audit", "financing",
     "permits", "monitoring"}

\* no batch yet: `results` is the Map of the call, a set of <<url, result>>;
\* `returned` lists what enrichInstallerWebsite returned for each input
NoBatch == [pc |-> "idle", urls |-> <<>>, pos |-> 0, results |-> {},
            returned |-> <<>>]

InitTags ==
    /\ dbTags = {}
    /\ dbScannedAt = {}
    /\ dbSpecialties = SeededSpecialties
    /\ job = NoJob
    /\ eresponse = NoResponse
    /\ batch = NoBatch

InitEnrich ==
    /\ epc = "idle"
    /\ eurl = Undefined
    /\ robots = Undefined
    /\ result = NoResult
    /\ homepageFetches = 0
    /\ InitClassify
    /\ InitCapacity
    /\ InitTags

InitRun ==
    /\ pc = "idle"
    /\ req = NoRequest
    /\ searchLat = UndefinedNum
    /\ searchLon = UndefinedNum
    /\ radius = UndefinedNum
    /\ upstream = <<>>
    /\ candidates = <<>>
    /\ idx = 0
    /\ installers = <<>>
    /\ response = NoResponse
    /\ netCalls = <<>>
    /\ obs = ObsInit
    /\ prev = NoPrev
    /\ runs = 0
    /\ faults = 0
    /\ scanLogs = <<>>

Init ==
    /\ \E st \in InitStores : dbInstallers = st.rows /\ dbLinks = st.links
    /\ InitRun
    /\ InitRate
    /\ InitEnrich

\* the state after construction, with nothing stored yet
InitEmpty ==
    /\ dbInstallers = <<>>
    /\ dbLinks = <<>>
    /\ InitRun
    /\ InitRate
    /\ InitEnrich

-----------------------------------------------------------------------------
(* Spec: discovery runs, one after another.  The guard of Discover is      *)
(* repeated ahead of its quantifier so that the upstream lists are          *)
(* enumerated only where the step is enabled.                               *)

Next ==
    \/ \E r \in RunRequests, geo \in GeoOutcomes : PostStart(r, geo)
    \/ \E ok, fatalLogOk \in BOOLEAN : LogStart(ok, fatalLogOk)
    \/ /\ pc = "discover"
       /\ \E outcome \in FetchOutcomes, elements \in UpstreamLists,
             fatalLogOk \in BOOLEAN : Discover(outcome, elements, fatalLogOk)
    \/ \E m \in 0..Len(dbInstallers), fail \in FailPoints,
          errLogOk, fatalLogOk \in BOOLEAN :
            Reconcile(m, fail, errLogOk, fatalLogOk)
    \/ \E ok, fatalLogOk \in BOOLEAN : Finish(ok, fatalLogOk)

Spec == Init /\ [][Next]_vars

-----------------------------------------------------------------------------
(* SpecReq: the request handling of the run, over every request shape *)

\* what the service returns to the runs that study request handling
ReqUpstreamLists == {<<>>, <<Node(1, FullTagsOf("Sun"), 10, 10)>>}

NextReq ==
    \/ \E r \in Requests, geo \in GeoOutcomes : PostStart(r, geo)
    \/ \E ok, fatalLogOk \in BOOLEAN : LogStart(ok, fatalLogOk)
    \/ \E outcome \in FetchOutcomes, elements \in ReqUpstreamLists,
          fatalLogOk \in BOOLEAN : Discover(outcome, elements, fatalLogOk)
    \/ \E m \in 0..Len(dbInstallers), fail \in FailPoints,
          errLogOk, fatalLogOk \in BOOLEAN :
            Reconcile(m, fail, errLogOk, fatalLogOk)
    \/ \E ok, fatalLogOk \in BOOLEAN : Finish(ok, fatalLogOk)

SpecReq == InitEmpty /\ [][NextReq]_vars

\* the `signal: AbortSignal.timeout(..)` each external fetch is given, in ms:
\* rateLimitedFetch 25000, rateLimitedWebsiteFetch 15000, the robots.txt
\* fetch 5000; the fetch of geocodeAddress is given headers only
fetchTimeout(service) ==
    CASE service = "overpass" -> 25000
      [] service = "website"  -> 15000
      [] service = "robots"   -> 5000
      [] service = "geocode"  -> UndefinedNum

\* lines 31-43 with a geocoding service that accepts the connection and never
\* answers: a fetch with a timeout is aborted, which geocodeAddress turns
\* into null; a fetch without one stays pending, and the handler with it
GeocodeUnresponsive(r) ==
    /\ pc \in {"idle", "done"}
    /\ runs < MaxRuns
    /\ needsGeocoding(r)
    /\ IF fetchTimeout("geocode") # UndefinedNum
       THEN PostStart(r, [kind |-> "network_error"])
       ELSE /\ runs' = runs + 1
            /\ prev' = NoPrev
            /\ req' = r
            /\ netCalls' = <<"geocode">>
            /\ pc' = "geocoding"
            /\ response' = NoResponse
            /\ searchLat' = r.lat /\ searchLon' = r.lon
            /\ radius' = UndefinedNum
            /\ scanLogs' = <<>>
            /\ upstream' = <<>>
            /\ candidates' = <<>>
            /\ idx' = 0
            /\ installers' = <<>>
            /\ obs' = [ObsInit EXCEPT !.geocoded = "pending"]
            /\ UNCHANGED <<dbInstallers, dbLinks, faults, rateVars, enrichVars>>

NextUnresponsive ==
    \/ NextReq
    \/ \E r \in Requests : GeocodeUnresponsive(r)

SpecUnresponsive == InitEmpty /\ [][NextUnresponsive]_vars

-----------------------------------------------------------------------------
(* SpecDiscover: the discovery pipeline over every short upstream list *)

\* elements per upstream list
MaxElems == 4

PipelineNames == {"Sun", "SUN", "Sol"}
PipelineLats == {10, 11, 12, 13}
PipelineLons == {10, 12}

\* the two spellings of one name at every latitude on one meridian and at
\* one latitude on the other meridian, and every other name at one place
PipelineShapes ==
    [name : {"Sun", "SUN"}, lat : PipelineLats, lon : {10}]
        \cup [name : PipelineNames \ {"Sun", "SUN"}, lat : {10}, lon : {10}]
        \cup [name : {"Sun", "SUN"}, lat : {10}, lon : PipelineLons \ {10}]

\* the upstream list of n elements with the shapes sh; element i of the
\* list is OSM node i
PipelineList(n, sh) ==
    [i \in 1..n |-> Node(i, TagsOf(sh[i].name), sh[i].lat, sh[i].lon)]

NextDiscover ==
    \/ \E r \in RunRequests, geo \in GeoOutcomes : PostStart(r, geo)
    \/ LogStart(TRUE, TRUE)
    \/ /\ pc = "discover"
       /\ \E n \in 0..MaxElems : \E sh \in [1..n -> PipelineShapes] :
             Discover("ok", PipelineList(n, sh), TRUE)

SpecDiscover == InitEmpty /\ [][NextDiscover]_vars

-----------------------------------------------------------------------------
(* SpecFilter: discovery over elements of every kind the service returns    *)
(* with `out center tags`: nodes with their own coordinates, ways and       *)
(* relations with a center, elements without a name, and coordinates on     *)
(* the equator or the Greenwich meridian                                     *)

\* elements the service returns to one run
MaxFilterElems == 2

\* an OpenStreetMap way or relation as the service returns it
Way(id, tags, center) ==
    [osmId |-> id, tags |-> tags, lat |-> UndefinedNum, lon |-> UndefinedNum,
     center |-> center]

FilterNames == {"Sun", "", Undefined}
FilterCoords == {0, 10}

\* name, kind and place of an element; "bare" is an element that came
\* without coordinates
FilterShapes ==
    [name : FilterNames, kind : {"node", "way"},
     lat : FilterCoords, lon : FilterCoords]
        \cup [name : FilterNames, kind : {"bare"}, lat : {0}, lon : {0}]

FilterElement(id, sh) ==
    CASE sh.kind = "node" -> Node(id, TagsOf(sh.name), sh.lat, sh.lon)
      [] sh.kind = "way"  -> Way(id, TagsOf(sh.name), <<sh.lat, sh.lon>>)
      [] sh.kind = "bare" -> Way(id, TagsOf(sh.name), NoCenter)

FilterList(n, sh) == [i \in 1..n |-> FilterElement(i, sh[i])]

NextFilter ==
    \/ \E r \in RunRequests, geo \in GeoOutcomes : PostStart(r, geo)
    \/ LogStart(TRUE, TRUE)
    \/ /\ pc = "discover"
       /\ \E n \in 0..MaxFilterElems : \E sh \in [1..n -> FilterShapes] :
             Discover("ok", FilterList(n, sh), TRUE)

SpecFilter == InitEmpty /\ [][NextFilter]_vars

-----------------------------------------------------------------------------
(* SpecRate: the rate limiters under sequential use: a caller enters        *)
(* rateLimitedFetch / rateLimitedWebsiteFetch only when no other call is    *)
(* in progress                                                              *)

\* granularity of the clock, in ms
TickMs == 500
\* the clock stops advancing here
MaxClock == 10000

\* time passes
Tick ==
    /\ clock + TickMs <= MaxClock
    /\ clock' = clock + TickMs
    /\ UNCHANGED <<lastRequest, caller, sends, discVars, enrichVars>>

\* the synchronous head of rateLimited*Fetch: read the clock, compute the
\* wait; with nothing to wait for, stamp the time and send the request
RateCall(p, svc, sequential) ==
    /\ caller[p].pc = "idle"
    /\ sequential => \A q \in Callers : caller[q].pc = "idle"
    /\ LET w == waitTime(svc, clock, lastRequest[svc])
       IN  IF w > 0
           THEN /\ caller' = [caller EXCEPT ![p] =
                                 [pc |-> "waiting", svc |-> svc, wakeAt |-> clock + w]]
                /\ UNCHANGED <<lastRequest, sends>>
           ELSE /\ caller' = [caller EXCEPT ![p] =
                                 [pc |-> "fetching", svc |-> svc, wakeAt |-> 0]]
                /\ lastRequest' = [lastRequest EXCEPT ![svc] = clock]
                /\ sends' = [sends EXCEPT ![svc] = recordSend(@, clock)]
    /\ UNCHANGED <<clock, discVars, enrichVars>>

\* the timer of the wait fires (at its time or later): stamp the time and
\* send the request
RateWake(p) ==
    /\ caller[p].pc = "waiting"
    /\ clock >= caller[p].wakeAt
    /\ caller' = [caller EXCEPT ![p].pc = "fetching"]
    /\ lastRequest' = [lastRequest EXCEPT ![caller[p].svc] = clock]
    /\ sends' = [sends EXCEPT ![caller[p].svc] = recordSend(@, clock)]
    /\ UNCHANGED <<clock, discVars, enrichVars>>

\* the request completes and the call returns
RateReturn(p) ==
    /\ caller[p].pc = "fetching"
    /\ caller' = [caller EXCEPT ![p] = [pc |-> "idle", svc |-> @.svc, wakeAt |-> 0]]
    /\ UNCHANGED <<clock, lastRequest, sends, discVars, enrichVars>>

NextRate ==
    \/ Tick
    \/ \E p \in Callers, svc \in Services : RateCall(p, svc, TRUE)
    \/ \E p \in Callers : RateWake(p)
    \/ \E p \in Callers : RateReturn(p)

SpecRate == InitEmpty /\ [][NextRate]_vars

\* overlapping use: a call may start while another call to the limiter is
\* still waiting or fetching (two requests served by the same module)
NextRateConcurrent ==
    \/ Tick
    \/ \E p \in Callers, svc \in Services : RateCall(p, svc, FALSE)
    \/ \E p \in Callers : RateWake(p)
    \/ \E p \in Callers : RateReturn(p)

SpecRateConcurrent == InitEmpty /\ [][NextRateConcurrent]_vars

-----------------------------------------------------------------------------
(* Website enrichment: src/unnamed/part_008 *)

SpecialtySlugs ==
    <<"battery_backup", "ev_charger", "tile_roof", "metal_roof", "ground_mount",
      "off_grid", "microinverters", "commercial_pv", "residential_pv", "roofing",
      "storage_only", "solar_maintenance", "energy_audit", "financing",
      "permits", "monitoring">>

SPECIALTY_KEYWORDS(slug) ==
    CASE slug = "battery_backup" ->
            {"battery", "storage", "powerwall", "enphase iq battery",
             "solaredge home battery", "backup power", "energy storage",
             "tesla powerwall", "battery backup", "home battery"}
      [] slug = "ev_charger" ->
            {"ev charger", "evse", "level 2", "nema 14-50", "wall connector",
             "electric vehicle", "ev charging", "tesla charger", "chargepoint",
             "ev installation"}
      [] slug = "tile_roof" ->
            {"tile roof", "clay tile", "concrete tile", "spanish tile",
             "tile installation", "tile roofing", "roof tile"}
      [] slug = "metal_roof" ->
            {"metal roof", "standing seam", "corrugated metal", "steel roof",
             "aluminum roof", "metal roofing"}
      [] slug = "ground_mount" ->
            {"ground mount", "ground mounted", "field installation",
             "ground array", "pole mount", "ballasted system", "carport",
             "canopy"}
      [] slug = "off_grid" ->
            {"off grid", "off-grid", "remote power", "cabin solar",
             "hybrid inverter", "standalone system", "battery system",
             "grid-tie with battery"}
      [] slug = "microinverters" ->
            {"microinverter", "micro inverter", "enphase", "iq8", "iq7",
             "module level", "mlpe", "power optimizer"}
      [] slug = "commercial_pv" ->
            {"commercial", "business", "industrial", "c&i", "warehouse",
             "office building", "retail", "manufacturing", "agricultural"}
      [] slug = "residential_pv" ->
            {"residential", "home", "house", "homeowner", "rooftop", "family"}
      [] slug = "roofing" ->
            {"roofing", "re-roof", "roof replacement", "shingle", "comp roof",
             "asphalt", "roof repair", "roofing contractor"}
      [] slug = "storage_only" ->
            {"battery only", "storage only", "retrofit battery", "add battery",
             "existing solar"}
      [] slug = "solar_maintenance" ->
            {"maintenance", "repair", "cleaning", "service", "troubleshooting",
             "system monitoring", "performance optimization"}
      [] slug = "energy_audit" ->
            {"energy audit", "efficiency audit", "home energy assessment",
             "energy evaluation"}
      [] slug = "financing" ->
            {"financing", "solar loans", "lease", "ppa",
             "power purchase agreement", "solar financing", "payment plans",
             "zero down"}
      [] slug = "permits" ->
            {"permits", "permitting", "interconnection", "utility coordination",
             "ahj approval", "inspection"}
      [] slug = "monitoring" ->
            {"monitoring", "production monitoring", "system monitoring",
             "remote monitoring", "performance tracking", "enphase enlighten",
             "solaredge monitoring"}

\* \w of the regular expressions, on a lowercased character
WordChars ==
    {"a", "b", "c", "d", "e", "f", "g", "h", "i", "j", "k", "l", "m", "n", "o",
     "p", "q", "r", "s", "t", "u", "v", "w", "x", "y", "z", "0", "1", "2", "3",
     "4", "5", "6", "7", "8", "9", "_"}

\* \s of the regular expressions
SpaceChars == {" ", "\t", "\n", "\r"}

\* .replace(/<tag\b[^<]*(?:(?!<\/tag>)<[^<]*)*<\/tag>/gi, ''): every stretch
\* from `open` (followed by a non-word character) to the first `close` after
\* it is removed
RECURSIVE removeBlocks(_, _, _)
removeBlocks(s, open, close) ==
    LET low == ToLowerCase(s)
        closesFrom(i) == {j \in (i + Len(open))..Len(s) : At(low, j, close)}
        opens == {i \in 1..Len(s) :
                     /\ At(low, i, open)
                     /\ i + Len(open) <= Len(s)
                     /\ Char(low, i + Len(open)) \notin WordChars
                     /\ closesFrom(i) # {}}
    IN  IF opens = {} THEN s
        ELSE LET i == Least(opens)
                 j == Least(closesFrom(i))
             IN  SubSeq(s, 1, i - 1)
                     \o removeBlocks(SubSeq(s, j + Len(close), Len(s)), open, close)

\* .replace(/<[^>]+>/g, ' ')
RECURSIVE stripTags(_)
stripTags(s) ==
    LET closesFrom(i) == {j \in (i + 2)..Len(s) : Char(s, j) = ">"}
        opens == {i \in 1..Len(s) :
                     /\ Char(s, i) = "<"
                     /\ i + 1 <= Len(s)
                     /\ Char(s, i + 1) # ">"
                     /\ closesFrom(i) # {}}
    IN  IF opens = {} THEN s
        ELSE LET i == Least(opens)
                 j == Least(closesFrom(i))
             IN  SubSeq(s, 1, i - 1) \o " " \o stripTags(SubSeq(s, j + 1, Len(s)))

\* .replace(/\s+/g, ' ')
RECURSIVE collapseFrom(_, _)
collapseFrom(s, i) ==
    IF i > Len(s) THEN ""
    ELSE IF Char(s, i) \in SpaceChars
    THEN (IF i > 1 /\ Char(s, i - 1) \in SpaceChars THEN "" ELSE " ")
             \o collapseFrom(s, i + 1)
    ELSE Char(s, i) \o collapseFrom(s, i + 1)

\* String.prototype.trim
trim(s) ==
    LET inked == {i \in 1..Len(s) : Char(s, i) \notin SpaceChars}
    IN  IF inked = {} THEN ""
        ELSE SubSeq(s, Least(inked),
                    CHOOSE i \in inked : \A j \in inked : j <= i)

extractTextFromHTML(html) ==
    trim(ToLowerCase(collapseFrom(
        stripTags(removeBlocks(removeBlocks(html, "<script", "</script>"),
                               "<style", "</style>")), 1)))

\* (mutant) a keyword counts only where the text begins with it
hasKeywordAtStart(text, slug) ==
    \E keyword \in SPECIALTY_KEYWORDS(slug) : StartsWith(text, ToLowerCase(keyword))

\* keywords.some(keyword => text.includes(keyword.toLowerCase()))
hasKeyword(text, slug) ==
    \E keyword \in SPECIALTY_KEYWORDS(slug) : Includes(text, ToLowerCase(keyword))

\* detectSpecialties: the slugs with a keyword in the text, in table order
detectSpecialties(text) ==
    SelectIdx(SpecialtySlugs,
              {k \in 1..Len(SpecialtySlugs) : hasKeyword(text, SpecialtySlugs[k])})

\* the slugs of a list
slugSet(list) == {list[k] : k \in 1..Len(list)}

\* the websiteUrl arguments of the model: none, empty, bare host, with
\* either scheme, and one that does not parse as a URL
Urls ==
    {Undefined, "", "sun.example", "http://sun.example", "https://sun.example",
     "sun example"}

\* lines 181-184: a URL without scheme gets https://
normalizeUrl(websiteUrl) ==
    IF ~StartsWith(websiteUrl, "http://") /\ ~StartsWith(websiteUrl, "https://")
    THEN "https://" \o websiteUrl
    ELSE websiteUrl

\* `new URL(url)` does not throw (a host holding a space does not parse)
parsesAsUrl(url) == ~Includes(url, " ")

\* what the robots.txt request of checkRobotsTxt can produce: the URL does
\* not parse, the request fails or times out, the answer is not 2xx, the body
\* cannot be read, or the policy is read and the parser's isAllowed answers
\* for the crawler's user agent
RobotsOutcomes ==
    {"bad_url", "network_error", "timeout", "not_ok", "read_error",
     "allowed", "disallowed"}

\* (mutant) a policy that cannot be retrieved counts as a refusal
checkRobotsTxtStrict(outcome) == outcome = "allowed"

\* (mutant) the parser's answer is not looked at
checkRobotsTxtPermissive(outcome) == TRUE

\* checkRobotsTxt: true from the catch block and for a non-2xx answer,
\* otherwise what robots.isAllowed('SolarProvidersOnline', '/') answers
checkRobotsTxt(outcome) ==
    IF outcome \in {"bad_url", "network_error", "timeout", "read_error"} THEN TRUE
    ELSE IF outcome = "not_ok" THEN TRUE
    ELSE outcome = "allowed"

\* what the homepage request can produce
HomepageOutcomes == {"network_error", "timeout", "http_error", "not_html", "html"}

\* the homepages of the model
Pages ==
    {"<html><body><h1>Tesla Powerwall</h1>\n and EV  Charger</body></html>",
     "<p>Roof<script>var battery = 1</script>ing</p>",
     "<b>Metal</b>Roof<style>.home{}</style>",
     "<div>plain page</div>"}

\* the page a request without an HTML body is drawn with
NoPage == ""

\* lines 167-184: the result object, the URL check
enrichHead(websiteUrl) ==
    /\ eurl' = websiteUrl
    /\ robots' = Undefined
    /\ homepageFetches' = 0
    /\ IF ~Truthy(websiteUrl)
       THEN /\ result' = [specialties |-> <<>>, success |-> FALSE,
                          error |-> "No website URL provided"]
            /\ epc' = "done"
       ELSE /\ result' = NoResult
            /\ epc' = "robots"

\* a call of enrichInstallerWebsite from outside the handlers
EnrichStart(websiteUrl) ==
    /\ epc \in {"idle", "done"}
    /\ clock < MaxClock
    /\ enrichHead(websiteUrl)
    /\ UNCHANGED <<discVars, rateVars, extraVars>>

\* lines 187-191: checkRobotsTxt(url) and the refusal
CheckRobots(outcome) ==
    /\ epc = "robots"
    /\ (outcome = "bad_url") <=> ~parsesAsUrl(normalizeUrl(eurl))
    /\ robots' = outcome
    /\ IF ~checkRobotsTxt(outcome)
       THEN /\ result' = [result EXCEPT !.error = "Robots.txt disallows crawling"]
            /\ epc' = "done"
       ELSE /\ UNCHANGED result
            /\ epc' = "fetch"
    /\ UNCHANGED <<eurl, homepageFetches, discVars, rateVars, extraVars>>

\* lines 194-221: the homepage request through rateLimitedWebsiteFetch
\* (taken here as one step: wait, stamp, send), the tests on the answer,
\* the classification of the text
FetchHomepage(outcome, html) ==
    /\ epc = "fetch"
    /\ (outcome = "html") <=> (html # NoPage)
    /\ ~parsesAsUrl(normalizeUrl(eurl)) => outcome = "network_error"
    /\ LET sendAt == clock + waitTime("website", clock, lastRequest["website"])
       IN  /\ clock' = sendAt
           /\ lastRequest' = [lastRequest EXCEPT !["website"] = sendAt]
           /\ sends' = [sends EXCEPT !["website"] = recordSend(@, sendAt)]
           /\ UNCHANGED caller
    /\ homepageFetches' = homepageFetches + 1
    /\ result' =
          CASE outcome = "network_error" -> [result EXCEPT !.error = "fetch failed"]
            [] outcome = "timeout" ->
                  [result EXCEPT !.error = "The operation was aborted due to timeout"]
            [] outcome = "http_error" -> [result EXCEPT !.error = "HTTP 404: Not Found"]
            [] outcome = "not_html" -> [result EXCEPT !.error = "Not an HTML page"]
            [] outcome = "html" ->
                  [result EXCEPT !.specialties = detectSpecialties(extractTextFromHTML(html)),
                                 !.success = TRUE]
    /\ epc' = "done"
    /\ UNCHANGED <<eurl, robots, discVars, extraVars>>

-----------------------------------------------------------------------------
(* SpecEnrich: enrichInstallerWebsite, one call after another *)

NextEnrich ==
    \/ \E websiteUrl \in Urls : EnrichStart(websiteUrl)
    \/ \E outcome \in RobotsOutcomes : CheckRobots(outcome)
    \/ \E outcome \in HomepageOutcomes, html \in Pages \cup {NoPage} :
          FetchHomepage(outcome, html)

SpecEnrich == InitEmpty /\ [][NextEnrich]_vars

-----------------------------------------------------------------------------
(* SpecStore: enrichment of stored installers, one request after another:  *)
(* POST /api/enrich/[id] (enrich/[id]/route.ts:7-149) and                  *)
(* EnrichmentPipeline.enrichProvider (part_007:437-514)                    *)

\* no request is taken at or after this time
MaxStoreClock == 6000

\* the variables of a discovery run and the two tables it writes
runVars == <<dbInstallers, dbLinks, pc, req, searchLat, searchLon, radius,
             upstream, candidates, idx, installers, response, netCalls, obs,
             prev, runs>>

\* the slugs of installer id, through installer_specialties
tagsOf(id) == {row[2] : row \in {r \in dbTags : r[1] = id}}

\* installers.lastScannedAt of installer id
lastScannedAt(id) ==
    IF \E r \in dbScannedAt : r[1] = id
    THEN (CHOOSE r \in dbScannedAt : r[1] = id)[2]
    ELSE NullTime

\* data: { lastScannedAt: new Date() }
setScannedAt(id, now) == {r \in dbScannedAt : r[1] # id} \cup {<<id, now>>}

\* prisma.scanLog.create of the enrich handler
SiteLogRow(installerId, status, message) ==
    [installerId |-> installerId, source |-> "SITE", status |-> status,
     message |-> message, about |-> 0]

\* what the enrich handler answers when it did not throw
EnrichResponse(success, error, specialties) ==
    [status |-> 200, success |-> success, error |-> error,
     specialties |-> specialties]

\* route.ts:124-145: the handler's catch block, after the rows `logs`
RouteCatch(logs, id, logOk) ==
    /\ scanLogs' = IF logOk
                   THEN Append(logs, SiteLogRow(id, "ERROR", "Enrichment failed"))
                   ELSE logs
    /\ eresponse' = ErrorResponse(500, "Failed to enrich installer")

\* route.ts:11-46: find the installer, test its website, log the attempt,
\* call enrichInstallerWebsite
RouteStart(id, fail, errLogOk) ==
    /\ job.pc \in {"idle", "done"}
    /\ epc \in {"idle", "done"}
    /\ clock < MaxStoreClock
    /\ LET found == id \in 1..Len(dbInstallers)
           website == IF found THEN dbInstallers[id].website ELSE Null
           threw == fail # "none"
           started == [NoJob EXCEPT !.kind = "route", !.id = id,
                                    !.before = [tags |-> tagsOf(id),
                                                scannedAt |-> lastScannedAt(id)]]
           ended == [started EXCEPT !.pc = "done"]
           unstarted == UNCHANGED <<epc, eurl, robots, result, homepageFetches>>
       IN  /\ fail = "startlog" => found /\ Truthy(website)
           /\ threw \/ errLogOk
           /\ Faulty(threw)
           /\ IF fail = "find"
              THEN RouteCatch(<<>>, id, errLogOk) /\ job' = ended /\ unstarted
              ELSE IF ~found
              THEN /\ scanLogs' = <<>>
                   /\ eresponse' = ErrorResponse(404, "Installer not found")
                   /\ job' = ended
                   /\ unstarted
              ELSE IF ~Truthy(website)
              THEN /\ scanLogs' = <<>>
                   /\ eresponse' =
                         ErrorResponse(400, "No website URL available for this installer")
                   /\ job' = ended
                   /\ unstarted
              ELSE IF fail = "startlog"
              THEN RouteCatch(<<>>, id, errLogOk) /\ job' = ended /\ unstarted
              ELSE /\ scanLogs' = <<SiteLogRow(id, "OK", "Website enrichment started")>>
                   /\ eresponse' = NoResponse
                   /\ job' = [started EXCEPT !.pc = "enriching"]
                   /\ enrichHead(website)
    /\ UNCHANGED <<runVars, rateVars, classifyVars, capacityVars, dbTags,
                   dbScannedAt, dbSpecialties, batchVars>>

\* (mutant) the rows of the installer are not removed first
keptTagsMerging(id) == dbTags

\* route.ts:71-73: installerSpecialty.deleteMany({ where: { installerId } })
keptTags(id) == {r \in dbTags : r[1] # id}

\* route.ts:76-81: the detected slugs the specialties table knows
specialtyData(id, specialties) ==
    {<<id, slug>> : slug \in slugSet(specialties) \cap dbSpecialties}

RouteFailPoints == {"none", "errorlog", "findMany", "deleteMany", "createMany",
                    "update", "oklog"}

\* route.ts:48-122: after enrichInstallerWebsite returned
RouteApply(fail, errLogOk) ==
    /\ job.kind = "route"
    /\ job.pc = "enriching"
    /\ epc = "done"
    /\ LET id == job.id
           threw == fail # "none"
           data == specialtyData(id, result.specialties)
       IN  /\ threw \/ errLogOk
           /\ Faulty(threw)
           /\ IF ~result.success
              THEN /\ fail \in {"none", "errorlog"}
                   /\ UNCHANGED <<dbTags, dbScannedAt>>
                   /\ IF fail = "none"
                      THEN /\ scanLogs' = Append(scanLogs,
                                 SiteLogRow(id, "ERROR", "Enrichment failed"))
                           /\ eresponse' = EnrichResponse(FALSE, result.error, <<>>)
                      ELSE RouteCatch(scanLogs, id, errLogOk)
              ELSE /\ fail # "errorlog"
                   /\ fail = "createMany" => data # {}
                   /\ dbTags' =
                         IF fail \in {"findMany", "deleteMany"} THEN dbTags
                         ELSE IF fail = "createMany" THEN keptTags(id)
                         ELSE keptTags(id) \cup data
                   /\ dbScannedAt' =
                         IF fail \in {"none", "oklog"} THEN setScannedAt(id, clock)
                         ELSE dbScannedAt
                   /\ IF fail = "none"
                      THEN /\ scanLogs' = Append(scanLogs,
                                 SiteLogRow(id, "OK", "Enrichment completed"))
                           /\ eresponse' =
                                 EnrichResponse(TRUE, Undefined, result.specialties)
                      ELSE RouteCatch(scanLogs, id, errLogOk)
           /\ job' = [job EXCEPT !.pc = "done",
                                 !.success = result.success /\ ~threw]
    /\ UNCHANGED <<runVars, rateVars, epc, eurl, robots, result, homepageFetches,
                   classifyVars, capacityVars, dbSpecialties, batchVars>>

-----------------------------------------------------------------------------
(* SpecClassify: testSpecialtyDetection applied to one text after another *)

\* the texts of the model are a lead, a middle and a tail put together
TextLeads == {"", "we install ", "WE OFFER ", "plain static page with ", "about our "}
TextMiddles ==
    {"tesla powerwall", "Tesla Powerwall", "no content", "EV Charger", "batter",
     "off-grid cabin solar", "metal roofing"}
TextTails == {"", " systems", " and Financing", " for your Home", " monitoring"}

Texts == {a \o b \o c : a \in TextLeads, b \in TextMiddles, c \in TextTails}

\* part_008:263-265: testSpecialtyDetection(text)
testSpecialtyDetection(text) == detectSpecialties(ToLowerCase(text))

\* a call on the text the behaviour began with; it can be repeated
TestSpecialtyDetection ==
    /\ cdetected' = [called |-> TRUE, slugs |-> testSpecialtyDetection(ctext)]
    /\ UNCHANGED <<discVars, rateVars, epc, eurl, robots, result, homepageFetches,
                   ctext, capacityVars, storeVars, batchVars>>

InitTexts ==
    /\ dbInstallers = <<>>
    /\ dbLinks = <<>>
    /\ InitRun
    /\ InitRate
    /\ epc = "idle"
    /\ eurl = Undefined
    /\ robots = Undefined
    /\ result = NoResult
    /\ homepageFetches = 0
    /\ ctext \in Texts
    /\ cdetected = NotCalled
    /\ InitCapacity
    /\ InitTags

NextClassify == TestSpecialtyDetection

SpecClassify == InitTexts /\ [][NextClassify]_vars

-----------------------------------------------------------------------------
(* SpecCapacity: CapacityEstimator.estimateCapacity (part_007:360-410)     *)
(* applied to a provider and the data read from its website                *)

\* Math.round(x * 100) / 100 of the quotient num / den, in thousandths: the
\* multiple of ten nearest to it (the inputs of the model stay away from
\* the halves, where the floating-point product decides)
roundHundredths(num, den) == ((2 * num + 10 * den) \div (20 * den)) * 10

RECURSIVE sumSizes(_, _)
\* .reduce((sum, p) => sum + (p.systemSize || 0), 0), from position i on
sumSizes(projects, i) ==
    IF i > Len(projects) THEN 0
    ELSE (IF TruthyNum(projects[i].systemSize) THEN projects[i].systemSize ELSE 0)
             + sumSizes(projects, i + 1)

\* (mutant) every record of the portfolio is kept
portfolioProjectsAll(portfolio) == portfolio

\* websiteData.portfolio.filter(p => p.systemSize)
portfolioProjects(portfolio) ==
    SelectIdx(portfolio,
              {k \in 1..Len(portfolio) : TruthyNum(portfolio[k].systemSize)})

\* provider.city?.toLowerCase().includes('commercial') ||
\* provider.specialties?.some(s => s.toLowerCase().includes('commercial'))
suggestsCommercial(p) ==
    \/ p.city # Null /\ p.city # Undefined
          /\ Includes(ToLowerCase(p.city), "commercial")
    \/ \E k \in 1..Len(p.specialties) :
          Includes(ToLowerCase(p.specialties[k]), "commercial")

Max(a, b) == IF a >= b THEN a ELSE b

estimateCapacity(p, w) ==
    LET fromPortfolio == IF w.present THEN portfolioProjects(w.portfolio) ELSE <<>>
        hasPortfolio == Len(fromPortfolio) > 0
        yearsInBusiness == IF TruthyNum(p.yearsInBusiness) THEN p.yearsInBusiness ELSE 5
        totalReviews == IF TruthyNum(p.totalReviews) THEN p.totalReviews ELSE 0
        heuristicProjects == Max(10, (totalReviews \div 2) + yearsInBusiness * 5)
        heuristicSize == IF suggestsCommercial(p) THEN 50000 ELSE 8000
        projects == IF hasPortfolio THEN Len(fromPortfolio) ELSE heuristicProjects
        totalKw == IF hasPortfolio THEN sumSizes(fromPortfolio, 1)
                   ELSE projects * heuristicSize
        confidence == IF hasPortfolio THEN 80 ELSE 40
    IN  [totalKw |-> roundHundredths(totalKw, 1),
         projects |-> projects,
         averageSystemSize |->
             IF projects > 0 THEN roundHundredths(totalKw, projects) ELSE 0,
         confidence |-> confidence]

\* the arguments of the model
YearsValues == {UndefinedNum, 0, 1, 4}
ReviewValues == {UndefinedNum, 0, 1, 20, 21}
Cities == {Null, "Austin", "Commercial Point"}
SpecialtyLists == {<<>>, <<"Residential">>, <<"Residential", "Commercial PV">>}
Providers ==
    [yearsInBusiness : YearsValues, totalReviews : ReviewValues,
     city : Cities, specialties : SpecialtyLists]
SizeLists ==
    {<<>>, <<UndefinedNum>>, <<0>>, <<5000, 7000>>, <<0, 5000>>,
     <<1004, UndefinedNum, 7000>>, <<1004, 1004, 1004>>}
Portfolio(sizes) == [k \in 1..Len(sizes) |-> [systemSize |-> sizes[k]]]
WebsiteDatas ==
    {NoWebsiteData} \cup {[present |-> TRUE, portfolio |-> Portfolio(sizes)] :
                              sizes \in SizeLists}

\* a call on the arguments the behaviour began with; it can be repeated
EstimateCapacity ==
    /\ estimate' = [called |-> TRUE, value |-> estimateCapacity(provider, websiteData)]
    /\ UNCHANGED <<discVars, rateVars, epc, eurl, robots, result, homepageFetches,
                   classifyVars, provider, websiteData, storeVars, batchVars>>

InitProviders ==
    /\ dbInstallers = <<>>
    /\ dbLinks = <<>>
    /\ InitRun
    /\ InitRate
    /\ epc = "idle"
    /\ eurl = Undefined
    /\ robots = Undefined
    /\ result = NoResult
    /\ homepageFetches = 0
    /\ InitClassify
    /\ provider \in Providers
    /\ websiteData \in WebsiteDatas
    /\ estimate = NoEstimate
    /\ InitTags

NextCapacity == EstimateCapacity

SpecCapacity == InitProviders /\ [][NextCapacity]_vars

-----------------------------------------------------------------------------
(* EnrichmentPipeline.enrichProvider (part_007:437-514) and the            *)
(* specification SpecStore of the two ways a stored installer is enriched  *)

\* part_007:197-202: the selectors page.evaluate looks up first
serviceSelectors ==
    <<"h2:contains(\"Services\")", "h3:contains(\"Services\")",
      "h2:contains(\"Specialties\")", "h3:contains(\"Specialties\")",
      "h2:contains(\"What We Do\")", "h3:contains(\"What We Do\")",
      ".services", ".specialties", ".what-we-do">>

\* document.querySelector throws a SyntaxError for a selector that is not
\* valid CSS, and :contains() is not a CSS pseudo-class
validSelector(selector) == ~Includes(selector, ":contains(")

\* part_007:204-205: the loop calls querySelector on every selector in turn
evaluateThrows ==
    \E k \in 1..Len(serviceSelectors) : ~validSelector(serviceSelectors[k])

\* what the page would give the script: the texts under the services
\* heading and the sizes of the portfolio items
PageDatas ==
    {[services |-> <<>>, sizes |-> <<>>],
     [services |-> <<"Battery Backup">>, sizes |-> <<5000, UndefinedNum>>]}

\* the state of the browser page: initialize() was not called, the
\* navigation fails, or the page is loaded
BrowserOutcomes == {"not_initialized", "goto_failed", "loaded"}

NoWebsite == [specialties |-> <<>>, portfolio |-> <<>>]

\* WebsiteEnricher.enrichProvider (part_007:156-356) as the pipeline sees it
\* (part_007:472-481): success with the data, or the errors it pushes
websiteEnrichment(row, browser, pageData) ==
    IF ~Truthy(row.website)
    THEN [success |-> FALSE, errors |-> <<"No website URL provided">>,
          website |-> NoWebsite]
    ELSE IF browser # "loaded" \/ evaluateThrows
    THEN [success |-> FALSE, errors |-> <<"Website enrichment failed">>,
          website |-> NoWebsite]
    ELSE [success |-> TRUE, errors |-> <<>>,
          website |-> [specialties |-> pageData.services,
                       portfolio |-> Portfolio(pageData.sizes)]]

\* .replace(/\s+/g, '-')
RECURSIVE hyphenateFrom(_, _)
hyphenateFrom(s, i) ==
    IF i > Len(s) THEN ""
    ELSE IF Char(s, i) \in SpaceChars
    THEN (IF i > 1 /\ Char(s, i - 1) \in SpaceChars THEN "" ELSE "-")
             \o hyphenateFrom(s, i + 1)
    ELSE Char(s, i) \o hyphenateFrom(s, i + 1)

\* part_007:497-498: specialty.toLowerCase().replace(/\s+/g, '-')
slugFor(specialty) == hyphenateFrom(ToLowerCase(specialty), 1)

\* the provider as findUnique returns it: the installers table has no
\* yearsInBusiness or totalReviews column and the query includes no relation
providerOf(row) ==
    [yearsInBusiness |-> UndefinedNum, totalReviews |-> UndefinedNum,
     city |-> row.city, specialties |-> <<>>]

\* part_007:437-514, in one step
EnrichProvider(id, browser, pageData, updateOk) ==
    /\ job.pc \in {"idle", "done"}
    /\ epc \in {"idle", "done"}
    /\ LET found == id \in 1..Len(dbInstallers)
           started == [NoJob EXCEPT !.kind = "pipeline", !.id = id, !.pc = "done",
                                    !.before = [tags |-> tagsOf(id),
                                                scannedAt |-> lastScannedAt(id)]]
       IN  IF ~found
           THEN /\ updateOk
                /\ browser = "loaded"
                /\ pageData.services = <<>>
                /\ job' = [started EXCEPT !.errors = <<"Provider not found">>]
                /\ UNCHANGED <<dbTags, dbScannedAt, dbSpecialties, faults>>
           ELSE LET row == dbInstallers[id]
                    web == websiteEnrichment(row, browser, pageData)
                    capacity ==
                        estimateCapacity(providerOf(row),
                            IF web.success
                            THEN [present |-> TRUE, portfolio |-> web.website.portfolio]
                            ELSE NoWebsiteData)
                    slugs == {slugFor(web.website.specialties[k]) :
                                 k \in 1..Len(web.website.specialties)}
                    rows == {<<id, slug>> : slug \in slugs}
                    \* the rows to create break the unique index of
                    \* installer_specialties (part_014)
                    conflict == web.success /\ rows \cap dbTags # {}
                    updated == updateOk /\ ~conflict
                    errors == IF updated THEN web.errors
                              ELSE Append(web.errors, "Database update failed")
                IN  /\ Truthy(row.website) \/ browser = "loaded"
                    /\ web.success \/ pageData.services = <<>>
                    /\ Faulty(~updateOk)
                    /\ dbScannedAt' = IF updated THEN setScannedAt(id, clock)
                                      ELSE dbScannedAt
                    /\ dbTags' = IF updated /\ web.success THEN dbTags \cup rows
                                 ELSE dbTags
                    /\ dbSpecialties' = IF updated /\ web.success
                                        THEN dbSpecialties \cup slugs
                                        ELSE dbSpecialties
                    /\ job' = [started EXCEPT !.success = errors = <<>>,
                                              !.errors = errors,
                                              !.estimatedCapacity = capacity]
    /\ UNCHANGED <<runVars, scanLogs, rateVars, epc, eurl, robots, result,
                   homepageFetches, classifyVars, capacityVars, eresponse,
                   batchVars>>

\* installers as discovery runs left them: one with a website, one without;
\* the first was enriched before, at time 1000, and tagged with financing
StoredRows ==
    <<createData(toCandidate(Node(1, FullTagsOf("Sun"), 10, 10))),
      createData(toCandidate(Node(2, TagsOf("Sol"), 10, 13)))>>

InitStored ==
    /\ dbInstallers = StoredRows
    /\ dbLinks = [k \in 1..Len(StoredRows) |-> generateAllLinks(linkInfo(StoredRows[k]))]
    /\ InitRun
    /\ InitRate
    /\ epc = "idle"
    /\ eurl = Undefined
    /\ robots = Undefined
    /\ result = NoResult
    /\ homepageFetches = 0
    /\ InitClassify
    /\ InitCapacity
    /\ dbTags = {<<1, "financing">>}
    /\ dbScannedAt = {<<1, 1000>>}
    /\ dbSpecialties = SeededSpecialties
    /\ job = NoJob
    /\ eresponse = NoResponse
    /\ batch = NoBatch

NextStore ==
    \/ /\ job.pc \in {"idle", "done"}
       /\ \E id \in 1..(Len(dbInstallers) + 1), fail \in {"none", "find", "startlog"},
             errLogOk \in BOOLEAN : RouteStart(id, fail, errLogOk)
    \/ /\ epc = "robots"
       /\ \E outcome \in RobotsOutcomes : CheckRobots(outcome)
    \/ /\ epc = "fetch"
       /\ \E outcome \in HomepageOutcomes, html \in Pages \cup {NoPage} :
             FetchHomepage(outcome, html)
    \/ /\ job.pc = "enriching"
       /\ \E fail \in RouteFailPoints, errLogOk \in BOOLEAN : RouteApply(fail, errLogOk)
    \/ /\ job.pc \in {"idle", "done"}
       /\ \E id \in 1..(Len(dbInstallers) + 1), browser \in BrowserOutcomes,
             pageData \in PageDatas, updateOk \in BOOLEAN :
             EnrichProvider(id, browser, pageData, updateOk)

SpecStore == InitStored /\ [][NextStore]_vars

-----------------------------------------------------------------------------
(* SpecBatch: enrichMultipleInstallers (part_008:225-255), one call after  *)
(* another, each running enrichInstallerWebsite on its URLs in turn        *)

\* the longest list of URLs a call is given
MaxBatch == 2

\* the websites of the model; two installers can have the same one
BatchUrls == {"sun.example", "sol.example"}

\* results.set(url, value)
mapSet(results, url, value) ==
    {r \in results : r[1] # url} \cup {<<url, value>>}

\* results.get(url), for a URL that has a result
mapGet(results, url) == (CHOOSE r \in results : r[1] = url)[2]

\* lines 228-233: the empty Map, the first URL
BatchStart(urls) ==
    /\ batch.pc \in {"idle", "done"}
    /\ epc \in {"idle", "done"}
    /\ clock < MaxStoreClock
    /\ IF urls = <<>>
       THEN /\ batch' = [NoBatch EXCEPT !.pc = "done"]
            /\ UNCHANGED <<epc, eurl, robots, result, homepageFetches>>
       ELSE /\ batch' = [NoBatch EXCEPT !.pc = "running", !.urls = urls, !.pos = 1]
            /\ enrichHead(urls[1])
    /\ UNCHANGED <<discVars, rateVars, classifyVars, capacityVars, storeVars>>

\* line 234 and the loop's next turn: enrichInstallerWebsite returned (it
\* catches what it throws, so the catch of lines 243-251 is not entered)
BatchCollect ==
    /\ batch.pc = "running"
    /\ epc = "done"
    /\ LET url == batch.urls[batch.pos]
           collected == [batch EXCEPT !.results = mapSet(@, url, result),
                                      !.returned = Append(@, result)]
       IN  IF batch.pos = Len(batch.urls)
           THEN /\ batch' = [collected EXCEPT !.pc = "done"]
                /\ UNCHANGED <<epc, eurl, robots, result, homepageFetches>>
           ELSE /\ batch' = [collected EXCEPT !.pos = @ + 1]
                /\ enrichHead(batch.urls[batch.pos + 1])
    /\ UNCHANGED <<discVars, rateVars, classifyVars, capacityVars, storeVars>>

InitBatch == InitEmpty

NextBatch ==
    \/ /\ batch.pc \in {"idle", "done"}
       /\ \E n \in 0..MaxBatch : \E urls \in [1..n -> BatchUrls] : BatchStart(urls)
    \/ /\ epc = "robots"
       /\ \E outcome \in RobotsOutcomes : CheckRobots(outcome)
    \/ /\ epc = "fetch"
       /\ \E outcome \in HomepageOutcomes, html \in Pages \cup {NoPage} :
             FetchHomepage(outcome, html)
    \/ BatchCollect

SpecBatch == InitBatch /\ [][NextBatch]_vars

-----------------------------------------------------------------------------
(* Claims about the discovery run *)

\* the run was asked for a radius above 50 km
RadiusAboveMax == TruthyNum(req.radiusMeters) /\ req.radiusMeters > MaxRadius

\* C1: a run asked for a radius above 50000 m ends with a 400 answer and has
\* issued no network request, neither geocoding nor discovery (SpecReq)
C1_RadiusRejectedBeforeNetwork ==
    (pc = "done" /\ RadiusAboveMax) =>
        /\ response.status = 400
        /\ netCalls = <<>>

\* C2: once the catch block of a candidate has run, the loop still visits
\* every candidate and the run answers 200 (unless reading the links for the
\* answer fails) (Spec)
C2_CandidateFailureIsolated ==
    (pc = "done" /\ obs.candErrors > 0 /\ ~obs.finishFailed) =>
        /\ idx = Len(candidates) + 1
        /\ response.status = 200

\* C3: a run without store failures that discovers the candidate list of the
\* previous run, itself without store failures, leaves the installer count
\* as that run left it and creates no installer (Spec)
C3_SecondRunCreatesNothing ==
    (/\ pc = "done" /\ response.status = 200 /\ obs.clean
     /\ prev.valid /\ prev.clean /\ prev.candidates = candidates) =>
        /\ Len(dbInstallers) = prev.count
        /\ obs.created = 0

\* two rows with case-insensitively equal names and both coordinates within
\* the tolerance of each other
NearDuplicates(a, b) ==
    /\ ToLowerCase(a.name) = ToLowerCase(b.name)
    /\ Abs(a.lat - b.lat) <= CoordTolerance
    /\ Abs(a.lon - b.lon) <= CoordTolerance

\* C4: the store never holds two distinct installers with case-insensitively
\* equal names and coordinates within the tolerance on both axes (Spec)
C4_NoNearDuplicateInstallers ==
    \A i, j \in 1..Len(dbInstallers) :
        i # j => ~NearDuplicates(dbInstallers[i], dbInstallers[j])

\* the candidates of the run before the dedup, in upstream order
mappedCandidates == mapCandidates(filterNamed(upstream))

\* the candidate at index i of the list `mapped` is in the run's candidate
\* list
Survives(mapped, i) ==
    \E k \in 1..Len(candidates) : candidates[k].osmId = mapped[i].osmId

\* case-insensitively equal names and both coordinates less than the
\* tolerance apart
DuplicatePair(a, b) ==
    /\ Abs(a.lat - b.lat) < CoordTolerance
    /\ Abs(a.lon - b.lon) < CoordTolerance
    /\ ToLowerCase(a.name) = ToLowerCase(b.name)

\* no two entries of the run's candidate list are a duplicate pair
NoDuplicateSurvivors ==
    \A k, l \in 1..Len(candidates) :
        k # l => ~DuplicatePair(candidates[k], candidates[l])

\* C5 as stated: the candidate list holds no duplicate pair, and of two
\* discovered candidates that are a duplicate pair the later one is dropped
\* and the earlier one is kept (SpecDiscover)
C5_ExactlyTheFirstSurvives ==
    pc \in {"reconcile", "finish"} =>
        LET mapped == mappedCandidates
        IN  /\ NoDuplicateSurvivors
            /\ \A i, j \in 1..Len(mapped) :
                  (i < j /\ DuplicatePair(mapped[i], mapped[j])) =>
                      Survives(mapped, i) /\ ~Survives(mapped, j)

\* what the dedup does guarantee (C5 without "the first survives"): the
\* candidate list holds no duplicate pair; of two discovered candidates
\* that are a duplicate pair the later one is dropped; a candidate
\* is kept exactly when no candidate before it is a duplicate of it, so the
\* earlier of the two may itself have been dropped (SpecDiscover)
C5_NoDuplicateSurvivors ==
    pc \in {"reconcile", "finish"} =>
        LET mapped == mappedCandidates
        IN  /\ NoDuplicateSurvivors
            /\ \A i, j \in 1..Len(mapped) :
                  (i < j /\ DuplicatePair(mapped[i], mapped[j])) =>
                      ~Survives(mapped, j)
            /\ \A i \in 1..Len(mapped) :
                  Survives(mapped, i) <=>
                      ~\E k \in 1..(i - 1) : DuplicatePair(mapped[k], mapped[i])

\* C5 witness: three candidates were discovered, the second a duplicate of
\* the first and the third of the second but not of the first, and only the
\* first is in the candidate list
C5_Witness ==
    /\ pc = "reconcile"
    /\ Len(upstream) = 3
    /\ LET mapped == mappedCandidates
       IN  /\ Len(mapped) = 3
           /\ DuplicatePair(mapped[1], mapped[2])
           /\ DuplicatePair(mapped[2], mapped[3])
           /\ ~DuplicatePair(mapped[1], mapped[3])
           /\ Len(candidates) = 1
           /\ candidates[1].osmId = mapped[1].osmId

OptionalFields == {"address", "city", "state", "postal", "phone", "website"}

\* C6: a step of the candidate loop leaves every optional column that the
\* candidate does not carry as it was, in every stored installer (Spec)
C6_AbsentFieldsCarriedForward ==
    [][pc = "reconcile" =>
          \A i \in 1..Len(dbInstallers) : \A f \in OptionalFields :
              candidates[idx][f] = Undefined =>
                  dbInstallers'[i][f] = dbInstallers[i][f]]_vars

\* C6 witness: an installer was updated from the candidate named "SUN", which
\* carries no optional tag, and still has the phone it was created with
C6_Witness ==
    /\ pc \in {"reconcile", "finish"}
    /\ idx > 1
    /\ candidates[idx - 1].name = "SUN"
    /\ candidates[idx - 1].phone = Undefined
    /\ obs.updated > 0
    /\ \E i \in 1..Len(dbInstallers) :
          /\ dbInstallers[i].name = "SUN"
          /\ dbInstallers[i].phone = "555-0100"
          /\ scanLogs[Len(scanLogs)] = LogRow(i, "OK", "Processed installer", idx - 1)

C8_UnresolvedLocationStopsRun ==
    obs.geocoded = "null" =>
        /\ pc = "done"
        /\ response = ErrorResponse(400, "Could not geocode the provided location")
        /\ netCalls = <<"geocode">>
        /\ obs.storeWrites = 0
        /\ scanLogs = <<>>

\* C8 witness: a run keyed by a location whose geocoding found nothing
C8_Witness ==
    /\ pc = "done"
    /\ obs.geocoded = "null"
    /\ req.location = "Austin"
    /\ response.status = 400

-----------------------------------------------------------------------------
(* Claims about the rate limiters and the website enrichment *)

\* C9: under sequential use two consecutive requests to one service are sent
\* at least its interval apart, and a call that has to wait is due exactly
\* one interval after the previous request to that service (SpecRate)
C9_SequentialRequestsSpaced ==
    \A svc \in Services :
        /\ sends[svc].n >= 2 => sends[svc].minGap >= Interval(svc)
        /\ \A p \in Callers :
              (caller[p].pc = "waiting" /\ caller[p].svc = svc) =>
                  caller[p].wakeAt = lastRequest[svc] + Interval(svc)

\* C9 witness: a call that had to wait has just sent the second request to
\* its service, one interval after the first
C9_Witness ==
    \E p \in Callers :
        /\ caller[p].pc = "fetching"
        /\ caller[p].wakeAt = clock
        /\ sends[caller[p].svc].n = 2
        /\ sends[caller[p].svc].minGap = Interval(caller[p].svc)

\* C10: when the robots.txt of the site was read and disallows the crawler,
\* the call is over with success = false and the error "Robots.txt disallows
\* crawling", no specialties, and it has issued no homepage request
\* (SpecEnrich)
C10_DisallowedSiteNotFetched ==
    robots = "disallowed" =>
        /\ epc = "done"
        /\ result.success = FALSE
        /\ result.error = "Robots.txt disallows crawling"
        /\ result.specialties = <<>>
        /\ homepageFetches = 0

\* C10 witness: after a call that fetched a homepage, a call for a site whose
\* robots.txt disallows the crawler has ended
C10_Witness ==
    /\ robots = "disallowed"
    /\ epc = "done"
    /\ eurl = "sun.example"
    /\ sends["website"].n >= 1

\* the robots.txt of the site could not be retrieved: the URL does not parse,
\* the request failed or timed out, the answer was not 2xx, or its body could
\* not be read
RetrievalFailures == {"bad_url", "network_error", "timeout", "not_ok", "read_error"}

\* C11: when the robots.txt of the site cannot be retrieved the call goes on
\* to the homepage request: it is about to issue it, or it has issued it
\* through the rate limiter and has not ended with the refusal (SpecEnrich)
C11_UnretrievablePolicyProceeds ==
    robots \in RetrievalFailures =>
        \/ epc = "fetch" /\ homepageFetches = 0
        \/ /\ epc = "done"
           /\ homepageFetches = 1
           /\ sends["website"].n >= 1
           /\ sends["website"].last = clock
           /\ result.error # "Robots.txt disallows crawling"

\* C11 witness: the robots.txt request was answered 404 and the call ended
\* with the specialties of the homepage
C11_Witness ==
    /\ robots = "not_ok"
    /\ epc = "done"
    /\ homepageFetches = 1
    /\ result.success
    /\ result.specialties # <<>>

\* the scan-log rows of the run that are about candidate i
entriesAbout(i) == {k \in 1..Len(scanLogs) : scanLogs[k].about = i}

\* C19: every candidate the run has handled has exactly one scan-log row, an
\* OK row when its installer row was created or updated and an ERROR row
\* when its processing failed (Spec)
C19_OneLogEntryPerCandidate ==
    \A i \in obs.written \cup obs.threw :
        /\ Cardinality(entriesAbout(i)) = 1
        /\ \A k \in entriesAbout(i) :
              /\ i \in obs.written => scanLogs[k].status = "OK"
              /\ i \in obs.threw \ obs.written => scanLogs[k].status = "ERROR"

\* C20: a run answered 200 reports as many processed installers as it had
\* candidates that did not end in the per-candidate catch block (Spec)
C20_ProcessedPlusErrorsIsDiscovered ==
    (pc = "done" /\ response.status = 200) =>
        /\ response.processed + obs.candErrors = response.discovered
        /\ response.processed = Cardinality((1..Len(candidates)) \ obs.threw)

\* the keyword occurs somewhere in the text
occursIn(keyword, text) ==
    \E i \in 1..Len(text) : \E j \in i..Len(text) : SubSeq(text, i, j) = keyword

\* C15: the classifier returns each slug at most once, and exactly the slugs
\* that have a keyword occurring in the lowercased text (SpecClassify)
C15_ExactlyTheSlugsWithAKeyword ==
    cdetected.called =>
    /\ Cardinality(slugSet(cdetected.slugs)) = Len(cdetected.slugs)
    /\ slugSet(cdetected.slugs) =
          {slug \in slugSet(SpecialtySlugs) :
              \E keyword \in SPECIALTY_KEYWORDS(slug) :
                  occursIn(keyword, ToLowerCase(ctext))}

\* C15 witness: a text in mixed case with keywords of several categories
C15_Witness ==
    /\ ctext = "WE OFFER Tesla Powerwall for your Home"
    /\ cdetected.called
    /\ slugSet(cdetected.slugs) = {"battery_backup", "residential_pv"}

\* the sizes of the portfolio records that have one: an absent size and a
\* size of 0 are both falsy to the estimator
knownSizes == {k \in 1..Len(websiteData.portfolio) :
                  websiteData.portfolio[k].systemSize > 0}
recordedSizes == {k \in 1..Len(websiteData.portfolio) :
                     websiteData.portfolio[k].systemSize # UndefinedNum}

RECURSIVE sumOver(_)
sumOver(S) ==
    IF S = {} THEN 0
    ELSE LET k == CHOOSE k \in S : TRUE
         IN  websiteData.portfolio[k].systemSize + sumOver(S \ {k})

\* C16 as stated: with a record that has a size, the total is the sum of the
\* recorded sizes, the project count the number of records with a size, the
\* confidence 0.8 (SpecCapacity)
C16_PortfolioSumAsStated ==
    (estimate.called /\ websiteData.present /\ recordedSizes # {}) =>
        /\ estimate.value.totalKw = sumOver(recordedSizes)
        /\ estimate.value.projects = Cardinality(recordedSizes)
        /\ estimate.value.confidence = 80

\* C16 amended: with a record that has a size other than 0, the total is the
\* sum of the sizes rounded to two decimals, the project count the number of
\* records with a size other than 0, the confidence 0.8 (SpecCapacity)
C16_PortfolioSumRounded ==
    (estimate.called /\ websiteData.present /\ knownSizes # {}) =>
        /\ estimate.value.totalKw = ((sumOver(knownSizes) + 5) \div 10) * 10
        /\ estimate.value.projects = Cardinality(knownSizes)
        /\ estimate.value.confidence = 80

\* C16 witness: sizes 5 and 7 gave total 12, 2 projects, confidence 0.8
C16_Witness ==
    /\ estimate.called
    /\ websiteData.present
    /\ websiteData.portfolio = Portfolio(<<5000, 7000>>)
    /\ estimate.value.totalKw = 12000
    /\ estimate.value.projects = 2
    /\ estimate.value.confidence = 80

\* a missing number counts as 0 in the formulas of the claims
orZero(n) == IF n = UndefinedNum THEN 0 ELSE n

\* C17: without a record that has a size, the project count is
\* max(10, floor(totalReviews/2) + yearsInBusiness*5) with missing values
\* counted as 0, the average size 50 kW when the city or a specialty
\* suggests commercial work and 8 kW otherwise, the total their product
\* (SpecCapacity)
C17_HeuristicProjectCount ==
    (estimate.called /\ ~(websiteData.present /\ recordedSizes # {})) =>
        LET count == Max(10, (orZero(provider.totalReviews) \div 2)
                                 + orZero(provider.yearsInBusiness) * 5)
            size == IF suggestsCommercial(provider) THEN 50000 ELSE 8000
        IN  /\ estimate.value.projects = count
            /\ estimate.value.averageSystemSize = size
            /\ estimate.value.totalKw = count * size

\* C18: without a record that has a size, the confidence is 0.3 when the
\* provider has neither reviews nor years in business recorded, and 0.4
\* otherwise (SpecCapacity)
C18_HeuristicConfidence ==
    (estimate.called /\ ~(websiteData.present /\ recordedSizes # {})) =>
        estimate.value.confidence =
            IF provider.totalReviews = UndefinedNum
                  /\ provider.yearsInBusiness = UndefinedNum
            THEN 30 ELSE 40

\* the request that was served last has ended
jobEnded == job.kind # "none" /\ job.pc = "done"

\* C12: after a successful enrichment of an installer its slugs are exactly
\* the detected slugs that the seeded specialties table knows, whatever it
\* was tagged with before; the handler is the only path that ends with
\* success, the pipeline's website step always leaves an error (SpecStore)
C12_TagsAreExactlyTheDetected ==
    /\ (jobEnded /\ job.kind = "route" /\ job.success) =>
          tagsOf(job.id) = slugSet(result.specialties) \cap SeededSpecialties
    /\ (jobEnded /\ job.kind = "pipeline") => ~job.success

\* C12 witness: the handler enriched the installer tagged with financing and
\* left it with the two slugs of the page, financing not among them
C12_Witness ==
    /\ jobEnded
    /\ job.kind = "route"
    /\ job.success
    /\ "financing" \in job.before.tags
    /\ tagsOf(job.id) = {"battery_backup", "ev_charger"}

\* C13: when an enrichment ends with success = false, the installer's slugs
\* and its lastScannedAt are what they were before the call (SpecStore)
C13_FailureChangesNothing ==
    (/\ jobEnded
     /\ \/ job.kind = "pipeline" /\ ~job.success
        \/ job.kind = "route" /\ eresponse.status = 200 /\ ~eresponse.success) =>
        /\ tagsOf(job.id) = job.before.tags
        /\ lastScannedAt(job.id) = job.before.scannedAt

\* C14: a batch that ended has one result per input, and every input's
\* result is what its own enrichment returned, failed or not (SpecBatch)
C14_OneResultPerInput ==
    batch.pc = "done" =>
        /\ Cardinality(batch.results) = Len(batch.urls)
        /\ \A i \in 1..Len(batch.urls) :
              mapGet(batch.results, batch.urls[i]) = batch.returned[i]

-----------------------------------------------------------------------------
(* Overlapping calls to the rate limiters *)

\* C27: for every interleaving of overlapping calls, two requests to one
\* service are sent at least the service's interval apart (SpecRateConcurrent)
C27_OverlappingRequestsSpaced ==
    \A svc \in Services :
        sends[svc].n >= 2 => sends[svc].minGap >= Interval(svc)

-----------------------------------------------------------------------------
(* Further claims about the discovery run *)

\* a request that carries both coordinates as numbers and no location
hasRawCoordinates(r) ==
    r.location = Undefined /\ r.lat # UndefinedNum /\ r.lon # UndefinedNum

\* C24: a run given raw coordinates (0 included) and no location is not
\* refused for its coordinates, searches at exactly those coordinates and
\* sends no geocoding request (SpecReq)
C24_RawCoordinatesProceed ==
    (runs > 0 /\ hasRawCoordinates(req) /\ ~radiusTooLarge(radiusOf(req))) =>
        /\ ~(pc = "done" /\ response.status = 400)
        /\ searchLat = req.lat /\ searchLon = req.lon
        /\ obs.geocoded = "not_called"
        /\ \A i \in 1..Len(netCalls) : netCalls[i] # "geocode"

\* C21: every external request a run has sent carries a timeout, and no run
\* is left waiting for an answer that never comes (SpecUnresponsive)
C21_EveryFetchTimesOut ==
    /\ \A i \in 1..Len(netCalls) : fetchTimeout(netCalls[i]) # UndefinedNum
    /\ pc # "geocoding"

\* C22: no step changes the links of an installer that is already stored;
\* links are written only for the installer the step creates, and they are
\* the ones generated from its row (Spec)
C22_LinksWrittenOnlyAtCreation ==
    [][/\ Len(dbLinks') >= Len(dbLinks)
       /\ \A id \in 1..Len(dbLinks) : dbLinks'[id] = dbLinks[id]
       /\ \A id \in (Len(dbLinks) + 1)..Len(dbLinks') :
             /\ id = Len(dbInstallers')
             /\ dbLinks'[id] \in {{}, generateAllLinks(linkInfo(dbInstallers'[id]))}]_vars

\* C22 witness: a run has updated an installer whose row now generates more
\* links than the installer has, the links being those of its creation
C22_Witness ==
    /\ pc = "done"
    /\ response.status = 200
    /\ obs.updated > 0
    /\ \E i \in 1..Len(installers) :
          /\ dbLinks[installers[i]] # {}
          /\ dbLinks[installers[i]] #
                generateAllLinks(linkInfo(dbInstallers[installers[i]]))

\* C29: when a run has ended with its answer, every installer it created or
\* updated has external links, whether or not the write of its links failed
\* in the run that created it (Spec)
C29_RediscoveryCompletesLinks ==
    (pc = "done" /\ response.status = 200) =>
        \A i \in 1..Len(installers) : dbLinks[installers[i]] # {}

\* C30: the installers a run answers with are pairwise distinct records: no
\* stored installer was the target of two candidates of the run (Spec)
C30_ResultInstallersDistinct ==
    (pc = "done" /\ response.status = 200) =>
        \A i, j \in 1..Len(installers) :
            i # j => installers[i] # installers[j]

\* case-insensitively equal names and both coordinates at most the
\* tolerance apart
withinTolerance(a, b) ==
    /\ Abs(a.lat - b.lat) <= CoordTolerance
    /\ Abs(a.lon - b.lon) <= CoordTolerance
    /\ ToLowerCase(a.name) = ToLowerCase(b.name)

\* C26: every discovered candidate that is not in the run's candidate list
\* has the name and, within the tolerance, the place of a candidate that is
\* in the list (SpecDiscover)
C26_DroppedOnlyForASurvivor ==
    pc \in {"reconcile", "finish"} =>
        LET mapped == mappedCandidates
        IN  \A i \in 1..Len(mapped) :
                ~Survives(mapped, i) =>
                    \E k \in 1..Len(candidates) :
                        withinTolerance(candidates[k], mapped[i])

\* C25: the request a run has sent to the geographic data service is a POST
\* whose body is the query built for the run's centre and radius (SpecReq)
C25_RequestCarriesQuery ==
    obs.request.sent =>
        /\ obs.request.method = "POST"
        /\ obs.request.body = buildQuery(searchLat, searchLon, radius)

-----------------------------------------------------------------------------
(* Further claims about the enrichment handler *)

\* C28: when the handler has crawled the site successfully and a store call
\* before the end of the timestamp update has failed (the call is answered
\* 500 and lastScannedAt is what it was), the installer has the slugs it had
\* before the call (SpecStore)
C28_TagReplacementAllOrNothing ==
    (/\ jobEnded /\ job.kind = "route"
     /\ result.success
     /\ eresponse.status = 500
     /\ lastScannedAt(job.id) = job.before.scannedAt) =>
        tagsOf(job.id) = job.before.tags

-----------------------------------------------------------------------------
(* Further claims about discovery *)

\* the element carries a name
hasName(element) ==
    element.tags.name # Undefined /\ element.tags.name # ""

\* the element carries numeric coordinates, its own or those of a center
hasCoordinate(element) ==
    \/ element.lat # UndefinedNum /\ element.lon # UndefinedNum
    \/ /\ element.center # NoCenter
       /\ element.center[1] # UndefinedNum /\ element.center[2] # UndefinedNum

\* C23: the candidates discovery maps before the dedup are exactly the
\* returned elements that have a name and a coordinate, 0 included, and each
\* has a non-empty name and numeric latitude and longitude (SpecFilter)
C23_ExactlyTheNamedAndLocated ==
    pc \in {"reconcile", "finish"} =>
        LET mapped == mappedCandidates
        IN  /\ {mapped[i].osmId : i \in 1..Len(mapped)} =
                  {upstream[i].osmId : i \in
                      {j \in 1..Len(upstream) :
                          hasName(upstream[j]) /\ hasCoordinate(upstream[j])}}
            /\ \A i \in 1..Len(mapped) :
                  /\ mapped[i].name # Undefined /\ mapped[i].name # ""
                  /\ mapped[i].lat # UndefinedNum
                  /\ mapped[i].lon # UndefinedNum

====
